---- MODULE Spec2Model ----
(***************************************************************************)
(* A model of gridscope's daily merge pipeline, DataMergerDaily            *)
(* (src/gridscope/data_preprocessing/data_merger_daily.py), of the gas     *)
(* price preprocessor, GasPricePreprocessor                                *)
(* (src/gridscope/data_fetching/uk_gas_prices_preprocessor.py), of         *)
(* UKGasImportsFetcher.fetch                                               *)
(* (src/gridscope/data_fetching/uk_gas_imports_fetcher.py), and of the     *)
(* weather fetcher, OpenMeteoFetcherUk                                     *)
(* (src/gridscope/data_fetching/uk_open_meteo_fetcher.py).                 *)
(*                                                                         *)
(* Time is counted in minutes from 2020-01-01T00:00, the start of the      *)
(* grid; a calendar date is the number of whole days from 2020-01-01.      *)
(* A cell is a tuple: <<>> is a missing value (NaN / NaT), <<t>> a         *)
(* timestamp or a date, <<n, d>> the number n/d in lowest terms, and       *)
(* Text(s) a cell of text.                                                 *)
(* A DataFrame is [columns, dtypes, rows]: the ordered column names, the   *)
(* dtype of each column and the rows in order, each row a function from    *)
(* the column names to cells.                                              *)
(***************************************************************************)
EXTENDS Integers, Sequences, FiniteSets, TLC

VARIABLES
    csv,          \* the CSV files behind the paths given to __init__
    cfg,          \* start and end of the daily index built by merge
    pc,           \* the next statement of save()/merge() to run
    weather,      \* merge's local: load_weather_daily()
    neso,         \* merge's local: load_neso_daily()
    gas_imports,  \* merge's local: load_gas_imports_daily()
    gas_prices,   \* merge's local: load_gas_prices_daily()
    idx,          \* merge's local: the daily index
    base,         \* merge's local: the table being merged
    output,       \* the file save() writes
    err,          \* the exception that ended the run
    preprocessor, \* a GasPricePreprocessor: its file, self.df, its last call
    fetcher,      \* a UKGasImportsFetcher and the locals of its fetch()
    meteo,        \* an OpenMeteoFetcherUk: its fields and its last call
    disk          \* the directory save_to_csv writes to and the files in it

vars == <<csv, cfg, pc, weather, neso, gas_imports, gas_prices, idx, base, output, err,
          preprocessor, fetcher, meteo, disk>>

-----------------------------------------------------------------------------
(* Bounds of the model *)

MaxGridDays == 3   \* the grid covers at most this many days
MaxRows == 3       \* rows of one source, over all of its files
MaxFiles == 2      \* files listed for one source
MaxNesoRows == 2   \* rows of the demand source, over all of its files
MaxPriceRows == 2  \* rows of the gas price file in a whole run of save()
MaxPriceDays == 4  \* days the price file of the preprocessor spans
MaxMonths == 3     \* months the dates given to the fetcher are taken from
MaxHours == 2      \* hours the weather archive holds for a request, at most
MaxMeteoDays == 2  \* days the range given to the weather fetcher spans

-----------------------------------------------------------------------------
(* Time and numbers *)

DayMinutes == 1440    \* freq="D"
PeriodMinutes == 30   \* one settlement period

NaN == <<>>
None == [none |-> TRUE]

\* a cell that holds text
Text(s) == <<"text", s, "", "">>

IsNull(c) == c = <<>>

Range(s) == {s[i] : i \in 1..Len(s)}

RECURSIVE GCD(_, _)
GCD(a, b) == IF b = 0 THEN a ELSE GCD(b, a % b)

\* the number n/d (d > 0) in lowest terms
Frac(n, d) ==
    LET g == GCD(IF n < 0 THEN -n ELSE n, d)
    IN  IF g = 0 THEN <<0, 1>> ELSE <<n \div g, d \div g>>

Num(n) == <<n, 1>>

AddNum(a, b) == Frac(a[1] * b[2] + b[1] * a[2], a[2] * b[2])

\* Timestamp.date(): the calendar date of a timestamp, NaT stays NaT
MidnightOf(d) == d * DayMinutes

DateOf(ts) == IF IsNull(ts) THEN NaN ELSE <<ts[1] \div DayMinutes>>

\* pd.to_datetime(date): the date's midnight
ToDatetime(date) == IF IsNull(date) THEN NaN ELSE <<MidnightOf(date[1])>>

RECURSIVE SortedSeq(_)
SortedSeq(S) ==
    IF S = {} THEN <<>>
    ELSE LET m == CHOOSE x \in S : \A y \in S : x <= y
         IN  <<m>> \o SortedSeq(S \ {m})

-----------------------------------------------------------------------------
(* DataFrames *)

Frame(columns, dtypes, rows) == [columns |-> columns, dtypes |-> dtypes, rows |-> rows]

\* the cells of column c in the rows whose column key holds k, in row order
RECURSIVE CellsOf(_, _, _, _)
CellsOf(rows, key, k, c) ==
    IF rows = <<>> THEN <<>>
    ELSE (IF rows[1][key] = k THEN <<rows[1][c]>> ELSE <<>>)
         \o CellsOf(Tail(rows), key, k, c)

\* the keys groupby(key) groups by, sorted; rows with a missing key are left out
GroupKeys(rows, key) ==
    SortedSeq({rows[i][key][1] : i \in {j \in 1..Len(rows) : ~IsNull(rows[j][key])}})

RECURSIVE SumSkipNa(_)
SumSkipNa(cells) ==
    IF cells = <<>> THEN Num(0)
    ELSE IF IsNull(cells[1]) THEN SumSkipNa(Tail(cells))
    ELSE AddNum(cells[1], SumSkipNa(Tail(cells)))

RECURSIVE CountNotNull(_)
CountNotNull(cells) ==
    IF cells = <<>> THEN 0
    ELSE (IF IsNull(cells[1]) THEN 0 ELSE 1) + CountNotNull(Tail(cells))

\* a sum that is missing when the group holds no value (min_count=1)
AggSumMinCount(cells) == IF CountNotNull(cells) = 0 THEN NaN ELSE SumSkipNa(cells)

\* GroupBy.sum: missing values are skipped, a group without values sums to 0
AggSum(cells) == SumSkipNa(cells)

\* GroupBy.mean: missing values are skipped, a group without values gives NaN
AggMean(cells) ==
    LET n == CountNotNull(cells)
        s == SumSkipNa(cells)
    IN  IF n = 0 THEN NaN ELSE Frac(s[1], s[2] * n)

\* GroupBy.first: the first value of the column that is not missing
RECURSIVE AggFirst(_)
AggFirst(cells) ==
    IF cells = <<>> THEN NaN
    ELSE IF IsNull(cells[1]) THEN AggFirst(Tail(cells))
    ELSE cells[1]

-----------------------------------------------------------------------------
(* 1) _load_concat *)

Ok(df) == [ok |-> TRUE, df |-> df, error |-> "none"]
Raise(e) == [ok |-> FALSE, df |-> None, error |-> e]

\* raise e(m): an exception with the text the code gives it
RaiseMessage(e, m) == [ok |-> FALSE, df |-> None, error |-> e, message |-> m]

\* the text of the exception that ended a call, "" when the call returned or
\* a library raised
Message(r) == IF "message" \in DOMAIN r THEN r.message ELSE ""

\* the columns of the frames, each once, in order of first appearance
RECURSIVE UnionColumns(_)
UnionColumns(frames) ==
    IF frames = <<>> THEN <<>>
    ELSE LET rest == UnionColumns(SubSeq(frames, 1, Len(frames) - 1))
             last == frames[Len(frames)].columns
         IN  rest \o SelectSeq(last, LAMBDA c : c \notin Range(rest))

RECURSIVE ConcatRows(_)
ConcatRows(frames) ==
    IF frames = <<>> THEN <<>> ELSE frames[1].rows \o ConcatRows(Tail(frames))

\* the rows with every row that repeats an earlier one removed
RECURSIVE DropDuplicates(_)
DropDuplicates(rows) ==
    IF rows = <<>> THEN <<>>
    ELSE LET init == DropDuplicates(SubSeq(rows, 1, Len(rows) - 1))
             last == rows[Len(rows)]
         IN  IF last \in Range(init) THEN init ELSE Append(init, last)

\* a concatenation that removes duplicate rows
PdConcatDropDuplicates(frames) ==
    LET cols == UnionColumns(frames)
        rows == DropDuplicates(ConcatRows(frames))
    IN  Frame(cols,
              [c \in Range(cols) |-> frames[1].dtypes[c]],
              [i \in 1..Len(rows) |->
                  [c \in Range(cols) |->
                      IF c \in DOMAIN rows[i] THEN rows[i][c] ELSE NaN]])

\* pd.concat(frames, ignore_index=True): every row of every frame, in order;
\* a column a frame lacks is NaN in that frame's rows
PdConcat(frames) ==
    LET cols == UnionColumns(frames)
        rows == ConcatRows(frames)
        dtype(c) == LET i == CHOOSE j \in 1..Len(frames) : c \in Range(frames[j].columns)
                    IN  frames[i].dtypes[c]
    IN  Frame(cols,
              [c \in Range(cols) |-> dtype(c)],
              [i \in 1..Len(rows) |->
                  [c \in Range(cols) |->
                      IF c \in DOMAIN rows[i] THEN rows[i][c] ELSE NaN]])

_load_concat(paths) ==
    IF \E i \in 1..Len(paths) : ~paths[i].exists THEN Raise("FileNotFoundError")
    ELSE IF paths = <<>> THEN Raise("ValueError")
    ELSE Ok(PdConcat(paths))

-----------------------------------------------------------------------------
(* 2) Weather: daily means *)

NumericColumns(df) == SelectSeq(df.columns, LAMBDA c : df.dtypes[c] = "float64")

load_weather_daily(paths) ==
    LET r == _load_concat(paths)
    IN  IF ~r.ok THEN r
        ELSE IF "datetime" \notin Range(r.df.columns) THEN Raise("ValueError")
        ELSE
        LET df == r.df
            dated == [i \in 1..Len(df.rows) |->
                        [c \in (Range(df.columns) \ {"datetime"}) \cup {"date"} |->
                            IF c = "date" THEN DateOf(df.rows[i]["datetime"])
                            ELSE df.rows[i][c]]]
            cols == NumericColumns(df)
            keys == GroupKeys(dated, "date")
        IN  Ok(Frame(<<"timestamp">> \o cols,
                     [c \in {"timestamp"} \cup Range(cols) |->
                         IF c = "timestamp" THEN "datetime64" ELSE "float64"],
                     [k \in 1..Len(keys) |->
                         [c \in {"timestamp"} \cup Range(cols) |->
                             IF c = "timestamp" THEN ToDatetime(<<keys[k]>>)
                             ELSE AggMean(CellsOf(dated, "date", <<keys[k]>>, c))]]))

-----------------------------------------------------------------------------
(* 3) NESO: settlement period to timestamp, then daily aggregation *)

\* a SETTLEMENT_DATE cell that read_csv left as text no date can be parsed from
BadDate == <<0, 0, 0>>

\* pd.to_datetime(errors="coerce", format="%d-%b-%Y")
ToDatetimeCoerce(cell) == IF Len(cell) = 1 THEN <<MidnightOf(cell[1])>> ELSE NaN

\* the settlement period taken as counted from 0
SettlementTimestampFromZero(date, period) ==
    IF IsNull(date) \/ IsNull(period) THEN NaN
    ELSE <<date[1] + period[1] * PeriodMinutes>>

\* SETTLEMENT_DATE + pd.to_timedelta((SETTLEMENT_PERIOD - 1) * 30, unit="m")
SettlementTimestamp(date, period) ==
    IF IsNull(date) \/ IsNull(period) THEN NaN
    ELSE <<date[1] + (period[1] - 1) * PeriodMinutes>>

required ==
    << "ND", "TSD", "ENGLAND_WALES_DEMAND", "EMBEDDED_WIND_GENERATION",
       "EMBEDDED_WIND_CAPACITY", "EMBEDDED_SOLAR_GENERATION",
       "EMBEDDED_SOLAR_CAPACITY", "NON_BM_STOR", "PUMP_STORAGE_PUMPING",
       "SCOTTISH_TRANSFER", "IFA_FLOW", "IFA2_FLOW", "BRITNED_FLOW", "MOYLE_FLOW",
       "EAST_WEST_FLOW", "NEMO_FLOW", "NSL_FLOW", "ELECLINK_FLOW", "VIKING_FLOW",
       "GREENLINK_FLOW" >>

MeanColumns ==
    { "ND", "TSD", "ENGLAND_WALES_DEMAND", "EMBEDDED_WIND_GENERATION",
      "EMBEDDED_WIND_CAPACITY", "EMBEDDED_SOLAR_GENERATION",
      "EMBEDDED_SOLAR_CAPACITY" }

agg_rules == [c \in Range(required) |-> IF c \in MeanColumns THEN "mean" ELSE "sum"]

\* the value a required column gets when the concatenated table has no such column
FillMissingColumn(df, col, row) == IF col \in Range(df.columns) THEN row[col] ELSE Num(0)

Aggregate(rule, cells) == IF rule = "mean" THEN AggMean(cells) ELSE AggSum(cells)

load_neso_daily(paths) ==
    LET r == _load_concat(paths)
    IN  IF ~r.ok THEN r
        ELSE IF {"SETTLEMENT_DATE", "SETTLEMENT_PERIOD"} \ Range(r.df.columns) # {}
        THEN Raise("KeyError")
        ELSE
        LET df == r.df
            full == [i \in 1..Len(df.rows) |->
                       [c \in Range(required) \cup {"date"} |->
                           IF c = "date"
                           THEN DateOf(SettlementTimestamp(
                                    ToDatetimeCoerce(df.rows[i]["SETTLEMENT_DATE"]),
                                    df.rows[i]["SETTLEMENT_PERIOD"]))
                           ELSE FillMissingColumn(df, c, df.rows[i])]]
            keys == GroupKeys(full, "date")
        IN  Ok(Frame(<<"timestamp">> \o required,
                     [c \in {"timestamp"} \cup Range(required) |->
                         IF c = "timestamp" THEN "datetime64" ELSE "float64"],
                     [k \in 1..Len(keys) |->
                         [c \in {"timestamp"} \cup Range(required) |->
                             IF c = "timestamp" THEN ToDatetime(<<keys[k]>>)
                             ELSE Aggregate(agg_rules[c],
                                            CellsOf(full, "date", <<keys[k]>>, c))]]))

-----------------------------------------------------------------------------
(* 4) Gas imports: the first row of each day *)

RenameColumn(c, from, to) == IF c = from THEN to ELSE c

load_gas_imports_daily(paths) ==
    LET r == _load_concat(paths)
    IN  IF ~r.ok THEN r
        ELSE IF "timestamp" \notin Range(r.df.columns) THEN Raise("ValueError")
        ELSE
        LET df == r.df
            old(c) == RenameColumn(c, "gas_imports_MWh_daily", "UK_imports_MWh_hour")
            cols == [i \in 1..Len(df.columns) |->
                        RenameColumn(df.columns[i], "UK_imports_MWh_hour",
                                     "gas_imports_MWh_daily")]
            dated == [i \in 1..Len(df.rows) |->
                        [c \in Range(cols) |->
                            IF c = "timestamp" THEN DateOf(df.rows[i]["timestamp"])
                            ELSE df.rows[i][old(c)]]]
            keys == GroupKeys(dated, "timestamp")
            vals == SelectSeq(cols, LAMBDA c : c # "timestamp")
        IN  Ok(Frame(<<"timestamp">> \o vals,
                     [c \in Range(cols) |->
                         IF c = "timestamp" THEN "datetime64" ELSE df.dtypes[old(c)]],
                     [k \in 1..Len(keys) |->
                         [c \in Range(cols) |->
                             IF c = "timestamp" THEN ToDatetime(<<keys[k]>>)
                             ELSE AggFirst(CellsOf(dated, "timestamp", <<keys[k]>>, c))]]))

-----------------------------------------------------------------------------
(* 5) Gas prices: one file, its rows as they are *)

PriceColumns == <<"timestamp", "SAP_p_per_kWh", "SAP_GBP_per_MWh">>

\* a loader that gives a table without rows when the file is not there
load_gas_prices_or_empty(path) ==
    IF ~path.exists
    THEN Ok(Frame(PriceColumns,
                  [c \in Range(PriceColumns) |->
                      IF c = "timestamp" THEN "datetime64" ELSE "float64"], <<>>))
    ELSE IF "date" \notin Range(path.columns) THEN Raise("ValueError")
    ELSE IF Range(PriceColumns) \ ({"timestamp"} \cup Range(path.columns)) # {}
    THEN Raise("KeyError")
    ELSE Ok(Frame(PriceColumns,
                  [c \in Range(PriceColumns) |->
                      IF c = "timestamp" THEN "datetime64" ELSE path.dtypes[c]],
                  [i \in 1..Len(path.rows) |->
                      [c \in Range(PriceColumns) |->
                          IF c = "timestamp" THEN ToDatetime(DateOf(path.rows[i]["date"]))
                          ELSE path.rows[i][c]]]))

load_gas_prices_daily(path) ==
    IF ~path.exists THEN Raise("FileNotFoundError")
    ELSE IF "date" \notin Range(path.columns) THEN Raise("ValueError")
    ELSE IF Range(PriceColumns) \ ({"timestamp"} \cup Range(path.columns)) # {}
    THEN Raise("KeyError")
    ELSE Ok(Frame(PriceColumns,
                  [c \in Range(PriceColumns) |->
                      IF c = "timestamp" THEN "datetime64" ELSE path.dtypes[c]],
                  [i \in 1..Len(path.rows) |->
                      [c \in Range(PriceColumns) |->
                          IF c = "timestamp" THEN ToDatetime(DateOf(path.rows[i]["date"]))
                          ELSE path.rows[i][c]]]))

-----------------------------------------------------------------------------
(* 6) merge: the daily index, the four left joins, the forward fill *)

\* a range that stops before end
RECURSIVE date_range_open(_, _, _)
date_range_open(start, end, freq) ==
    IF start >= end THEN <<>> ELSE <<start>> \o date_range_open(start + freq, end, freq)

\* pd.date_range(start, end, freq): start, start + freq, ... up to end
RECURSIVE date_range(_, _, _)
date_range(start, end, freq) ==
    IF start > end THEN <<>> ELSE <<start>> \o date_range(start + freq, end, freq)

GridFrame(index) ==
    Frame(<<"timestamp">>, [c \in {"timestamp"} |-> "datetime64"],
          [i \in 1..Len(index) |-> [c \in {"timestamp"} |-> <<index[i]>>]])

\* the rows of the right table whose key equals the key of the left row, in order
MatchingRows(right, key) == SelectSeq(right.rows, LAMBDA r : r["timestamp"] = key)

\* the name a column has in the joined table: a name both tables have gets a suffix
Suffixed(c, overlap, suffix) == IF c \in overlap THEN c \o suffix ELSE c

JoinedColumns(left, right) ==
    LET overlap == (Range(left.columns) \cap Range(right.columns)) \ {"timestamp"}
    IN  [i \in 1..Len(left.columns) |-> Suffixed(left.columns[i], overlap, "_x")]
        \o [i \in 1..Len(right.columns) - 1 |->
               Suffixed(SelectSeq(right.columns, LAMBDA c : c # "timestamp")[i],
                        overlap, "_y")]

\* the rows one left row gives with the right rows m: one per row of m, or one
\* with the right table's columns missing when m is empty
JoinRowWith(l, left, right, m) ==
    LET overlap == (Range(left.columns) \cap Range(right.columns)) \ {"timestamp"}
        rcols == Range(right.columns) \ {"timestamp"}
        names == {Suffixed(c, overlap, "_x") : c \in Range(left.columns)}
                   \cup {Suffixed(c, overlap, "_y") : c \in rcols}
        lsrc(n) == CHOOSE c \in Range(left.columns) : Suffixed(c, overlap, "_x") = n
        rsrc(n) == CHOOSE c \in rcols : Suffixed(c, overlap, "_y") = n
        fromLeft(n) == \E c \in Range(left.columns) : Suffixed(c, overlap, "_x") = n
        row(r, found) == [n \in names |->
                            IF fromLeft(n) THEN l[lsrc(n)]
                            ELSE IF found THEN r[rsrc(n)] ELSE NaN]
    IN  IF m = <<>> THEN <<row(l, FALSE)>>
        ELSE [j \in 1..Len(m) |-> row(m[j], TRUE)]

\* a join that gives a left row without a match the first row of the right table
JoinRowNearest(l, left, right) ==
    JoinRowWith(l, left, right,
                IF MatchingRows(right, l["timestamp"]) = <<>> /\ right.rows # <<>>
                THEN <<right.rows[1]>> ELSE MatchingRows(right, l["timestamp"]))

\* the rows one left row gives: one per right row with the left row's timestamp
JoinRow(l, left, right) ==
    JoinRowWith(l, left, right, MatchingRows(right, l["timestamp"]))

RECURSIVE JoinRows(_, _, _)
JoinRows(lrows, left, right) ==
    IF lrows = <<>> THEN <<>>
    ELSE JoinRow(lrows[1], left, right) \o JoinRows(Tail(lrows), left, right)

\* left.merge(right, on="timestamp", how="left")
LeftMerge(left, right) ==
    LET overlap == (Range(left.columns) \cap Range(right.columns)) \ {"timestamp"}
        cols == JoinedColumns(left, right)
        dtype(n) == IF \E c \in Range(left.columns) : Suffixed(c, overlap, "_x") = n
                    THEN left.dtypes[CHOOSE c \in Range(left.columns) :
                                        Suffixed(c, overlap, "_x") = n]
                    ELSE right.dtypes[CHOOSE c \in Range(right.columns) :
                                        Suffixed(c, overlap, "_y") = n]
    IN  IF Cardinality(Range(cols)) # Len(cols) THEN Raise("MergeError")
        ELSE Ok(Frame(cols, [n \in Range(cols) |-> dtype(n)],
                      JoinRows(left.rows, left, right)))

\* one column forward filled: a missing cell takes the last value above it
RECURSIVE FfillColumn(_, _)
FfillColumn(cells, last) ==
    IF cells = <<>> THEN <<>>
    ELSE LET v == IF IsNull(cells[1]) THEN last ELSE cells[1]
         IN  <<v>> \o FfillColumn(Tail(cells), v)

\* a fill that takes the next value below instead of the last value above
FfillBackward(df) ==
    LET numeric_cols == Range(NumericColumns(df))
        n == Len(df.rows)
        filled(c) == FfillColumn([i \in 1..n |-> df.rows[n + 1 - i][c]], NaN)
    IN  Frame(df.columns, df.dtypes,
              [i \in 1..n |->
                  [c \in Range(df.columns) |->
                      IF c \in numeric_cols THEN filled(c)[n + 1 - i] ELSE df.rows[i][c]]])

\* a fill of every column, numeric or not
FfillEveryColumn(df) ==
    LET filled(c) == FfillColumn([i \in 1..Len(df.rows) |-> df.rows[i][c]], NaN)
    IN  Frame(df.columns, df.dtypes,
              [i \in 1..Len(df.rows) |-> [c \in Range(df.columns) |-> filled(c)[i]]])

\* base[numeric_cols] = base[numeric_cols].fillna(method="ffill")
Ffill(df) ==
    LET numeric_cols == Range(NumericColumns(df))
        filled(c) == FfillColumn([i \in 1..Len(df.rows) |-> df.rows[i][c]], NaN)
    IN  Frame(df.columns, df.dtypes,
              [i \in 1..Len(df.rows) |->
                  [c \in Range(df.columns) |->
                      IF c \in numeric_cols THEN filled(c)[i] ELSE df.rows[i][c]]])

-----------------------------------------------------------------------------
(* 7) save() running merge(), one statement at a time *)

Fail(e) ==
    /\ pc' = "failed"
    /\ err' = e

LoadWeather ==
    /\ pc = "load_weather"
    /\ LET r == load_weather_daily(csv.weather)
       IN  IF r.ok
           THEN weather' = r.df /\ pc' = "load_neso" /\ err' = err
           ELSE weather' = weather /\ Fail(r.error)
    /\ UNCHANGED <<preprocessor, fetcher, meteo, disk, csv, cfg, neso, gas_imports, gas_prices, idx, base, output>>

LoadNeso ==
    /\ pc = "load_neso"
    /\ LET r == load_neso_daily(csv.neso)
       IN  IF r.ok
           THEN neso' = r.df /\ pc' = "load_gas_imports" /\ err' = err
           ELSE neso' = neso /\ Fail(r.error)
    /\ UNCHANGED <<preprocessor, fetcher, meteo, disk, csv, cfg, weather, gas_imports, gas_prices, idx, base, output>>

LoadGasImports ==
    /\ pc = "load_gas_imports"
    /\ LET r == load_gas_imports_daily(csv.gas_imports)
       IN  IF r.ok
           THEN gas_imports' = r.df /\ pc' = "load_gas_prices" /\ err' = err
           ELSE gas_imports' = gas_imports /\ Fail(r.error)
    /\ UNCHANGED <<preprocessor, fetcher, meteo, disk, csv, cfg, weather, neso, gas_prices, idx, base, output>>

LoadGasPrices ==
    /\ pc = "load_gas_prices"
    /\ LET r == load_gas_prices_daily(csv.gas_prices)
       IN  IF r.ok
           THEN gas_prices' = r.df /\ pc' = "build_index" /\ err' = err
           ELSE gas_prices' = gas_prices /\ Fail(r.error)
    /\ UNCHANGED <<preprocessor, fetcher, meteo, disk, csv, cfg, weather, neso, gas_imports, idx, base, output>>

BuildIndex ==
    /\ pc = "build_index"
    /\ idx' = date_range(cfg.start, cfg.end, DayMinutes)
    /\ base' = GridFrame(idx')
    /\ pc' = "merge_weather"
    /\ UNCHANGED <<preprocessor, fetcher, meteo, disk, csv, cfg, weather, neso, gas_imports, gas_prices, output, err>>

Join(at, right, next) ==
    /\ pc = at
    /\ LET r == LeftMerge(base, right)
       IN  IF r.ok
           THEN base' = r.df /\ pc' = next /\ err' = err
           ELSE base' = base /\ Fail(r.error)
    /\ UNCHANGED <<preprocessor, fetcher, meteo, disk, csv, cfg, weather, neso, gas_imports, gas_prices, idx, output>>

\* a join of the gas imports after which the table is filled at once
MergeGasImportsLast == Join("merge_gas_imports", gas_imports, "ffill")

MergeWeather == Join("merge_weather", weather, "merge_neso")

MergeNeso == Join("merge_neso", neso, "merge_gas_imports")

MergeGasImports == Join("merge_gas_imports", gas_imports, "merge_gas_prices")

MergeGasPrices == Join("merge_gas_prices", gas_prices, "ffill")

ForwardFill ==
    /\ pc = "ffill"
    /\ base' = Ffill(base)
    /\ pc' = "to_csv"
    /\ UNCHANGED <<preprocessor, fetcher, meteo, disk, csv, cfg, weather, neso, gas_imports, gas_prices, idx, output, err>>

Save ==
    /\ pc = "to_csv"
    /\ output' = base
    /\ pc' = "done"
    /\ UNCHANGED <<preprocessor, fetcher, meteo, disk, csv, cfg, weather, neso, gas_imports, gas_prices, idx, base, err>>

Next ==
    \/ LoadWeather
    \/ LoadNeso
    \/ LoadGasImports
    \/ LoadGasPrices
    \/ BuildIndex
    \/ MergeWeather
    \/ MergeNeso
    \/ MergeGasImports
    \/ MergeGasPrices
    \/ ForwardFill
    \/ Save

-----------------------------------------------------------------------------
(* 8) GasPricePreprocessor
      (src/gridscope/data_fetching/uk_gas_prices_preprocessor.py)

   The price file holds one row per day: its date and the day's price, which
   may be missing.  self.df is None until load() has run.  The record keeps
   the object's fields and the outcome of its last call: what it returned, or
   the exception it raised and, for an exception the code raises itself, its
   text. *)

\* GasPricePreprocessor(csv_path, convert_to_gbp_mwh=...): self.df = None
GasPricePreprocessor(csv_path, convert_to_gbp_mwh) ==
    [csv_path |-> csv_path, convert_to_gbp_mwh |-> convert_to_gbp_mwh,
     df |-> None, call |-> "none", returned |-> None, error |-> "none", message |-> ""]

\* no preprocessor is in use
NoPreprocessor == GasPricePreprocessor([exists |-> FALSE, rows |-> <<>>], TRUE)

MulNum(a, k) == IF IsNull(a) THEN NaN ELSE Frac(a[1] * k, a[2])

\* the rows in the order of their index, rows of one index in file order
RECURSIVE SortIndex(_, _)
SortIndex(rows, key) ==
    IF rows = <<>> THEN <<>>
    ELSE LET m == CHOOSE i \in 1..Len(rows) :
                     \A j \in 1..Len(rows) :
                        \/ rows[i][key][1] < rows[j][key][1]
                        \/ (rows[i][key][1] = rows[j][key][1] /\ i <= j)
         IN  <<rows[m]>> \o
             SortIndex([j \in 1..(Len(rows) - 1) |-> IF j < m THEN rows[j] ELSE rows[j + 1]], key)

DailyColumns == <<"date", "SAP_p_per_kWh", "SAP_GBP_per_MWh">>

\* load(): the dates become the sorted index, the price is kept and
\* converted to GBP/MWh
load(self) ==
    IF ~self.csv_path.exists THEN RaiseMessage("FileNotFoundError", "SAP CSV not found")
    ELSE LET raw == self.csv_path.rows
             kept == [i \in 1..Len(raw) |->
                        [c \in Range(DailyColumns) |->
                            IF c = "date" THEN raw[i]["Date"]
                            ELSE IF c = "SAP_p_per_kWh" THEN raw[i]["SAP actual day"]
                            ELSE IF self.convert_to_gbp_mwh
                                 THEN MulNum(raw[i]["SAP actual day"], 10)
                                 ELSE raw[i]["SAP actual day"]]]
         IN  Ok(Frame(DailyColumns,
                      [c \in Range(DailyColumns) |->
                          IF c = "date" THEN "datetime64" ELSE "float64"],
                      SortIndex(kept, "date")))

\* resample("30min") of the daily rows: every half hour from the first index
\* to the last, a slot holding the row of its instant and else no value
Resample(df) ==
    IF df.rows = <<>> THEN df
    ELSE LET first == df.rows[1]["date"][1]
             last == df.rows[Len(df.rows)]["date"][1]
             at(t) == {i \in 1..Len(df.rows) : df.rows[i]["date"][1] = t}
         IN  Frame(df.columns, df.dtypes,
                   [k \in 1..((last - first) \div PeriodMinutes + 1) |->
                       LET t == first + (k - 1) * PeriodMinutes
                       IN  [c \in Range(df.columns) |->
                               IF c = "date" THEN <<t>>
                               ELSE IF at(t) = {} THEN NaN
                               ELSE df.rows[CHOOSE i \in at(t) : TRUE][c]]])

\* the slots of a column that hold a value
Valid(cells) ==
    LET holds(i) == ~IsNull(cells[i])
    IN  Range(SelectSeq([i \in 1..Len(cells) |-> i], holds))

Max(S) == CHOOSE x \in S : \A y \in S : y <= x
Min(S) == CHOOSE x \in S : \A y \in S : x <= y

\* the value on the line through slots a and b, at slot i
OnLine(cells, a, b, i) ==
    LET va == cells[a]
        vb == cells[b]
    IN  Frac(va[1] * vb[2] * (b - a) + (vb[1] * va[2] - va[1] * vb[2]) * (i - a),
             va[2] * vb[2] * (b - a))

\* interpolate("linear"): a slot between two values lies on their line, the
\* slots before the first value stay missing, the slots after the last value
\* take the last value
InterpolateLinear(cells) ==
    LET valid == Valid(cells)
    IN  [i \in 1..Len(cells) |->
            IF i \in valid THEN cells[i]
            ELSE LET before == {a \in valid : a < i}
                     after == {b \in valid : b > i}
                 IN  IF before = {} THEN NaN
                     ELSE IF after = {} THEN cells[Max(before)]
                     ELSE OnLine(cells, Max(before), Min(after), i)]

\* a value of the cubic spline between two of its points: the model keeps
\* that the slot holds a value, not the value
SplineValue == <<"cubic", "spline", "value">>

SplineOrder == 3   \* a cubic spline needs SplineOrder + 1 points

\* interpolate("cubic"): nothing is done to a column without values or
\* without gaps; the spline is fitted to the values of the column and needs
\* four of them; it gives a value between its first and last point only
InterpolateCubic(cells) ==
    LET valid == Valid(cells)
    IN  IF valid = {} \/ valid = 1..Len(cells) THEN Ok(cells)
        ELSE IF Cardinality(valid) < SplineOrder + 1 THEN Raise("ValueError")
        ELSE LET first == Min(valid)
                 last == Max(valid)
             IN  Ok([i \in 1..Len(cells) |->
                        IF i \in valid THEN cells[i]
                        ELSE IF i < first \/ i > last THEN NaN
                        ELSE SplineValue])

Methods == {"linear", "cubic"}

\* DataFrame.interpolate(method) on the value columns of the resampled rows
Interpolate(df, method) ==
    LET done == [k \in 1..Len(df.columns) |->
                    LET column == [i \in 1..Len(df.rows) |-> df.rows[i][df.columns[k]]] \o <<>>
                    IN  IF df.columns[k] = "date" THEN Ok(column)
                        ELSE IF method = "linear" THEN Ok(InterpolateLinear(column) \o <<>>)
                        ELSE InterpolateCubic(column)] \o <<>>
        at(c) == CHOOSE k \in 1..Len(df.columns) : df.columns[k] = c
    IN  IF \E k \in 1..Len(done) : ~done[k].ok THEN Raise("ValueError")
        ELSE Ok(Frame(df.columns, df.dtypes,
                      [i \in 1..Len(df.rows) |->
                          [c \in Range(df.columns) |-> done[at(c)].df[i]]]))

\* interpolate_half_hourly(method)
interpolate_half_hourly(self, method) ==
    IF self.df = None THEN RaiseMessage("ValueError", "Load data first using .load()")
    ELSE Interpolate(Resample(self.df), method)

\* a call of load()
Load ==
    /\ LET r == load(preprocessor)
       IN  preprocessor' = [preprocessor EXCEPT
                               !.df = IF r.ok THEN r.df ELSE @,
                               !.call = "load",
                               !.returned = r.df,
                               !.error = r.error,
                               !.message = Message(r)]
    /\ UNCHANGED <<csv, cfg, pc, weather, neso, gas_imports, gas_prices, idx, base,
                   output, err, fetcher, meteo, disk>>

\* a call of interpolate_half_hourly(method)
InterpolateHalfHourly ==
    /\ \E method \in Methods :
          LET r == interpolate_half_hourly(preprocessor, method)
          IN  preprocessor' = [preprocessor EXCEPT
                                  !.call = method,
                                  !.returned = r.df,
                                  !.error = r.error,
                                  !.message = Message(r)]
    /\ UNCHANGED <<csv, cfg, pc, weather, neso, gas_imports, gas_prices, idx, base,
                   output, err, fetcher, meteo, disk>>

-----------------------------------------------------------------------------
(* 9) UKGasImportsFetcher.fetch
      (src/gridscope/data_fetching/uk_gas_imports_fetcher.py)

   start_date and end_date are calendar dates, counted in days from
   2020-01-01.  The ENTSOG client is the environment: what a query gives is
   chosen when the query is made.  queried is the log of the queries made,
   as fetch prints it. *)

\* UKGasImportsFetcher(start_date, end_date) about to run fetch(); ts_name is
\* the name the client gives the column with the start of a flow period
UKGasImportsFetcher(start_date, end_date, ts_name) ==
    [start_date |-> start_date, end_date |-> end_date, ts_name |-> ts_name,
     pc |-> "keys", dates |-> <<>>, i |-> 1, frames |-> <<>>, queried |-> <<>>,
     returned |-> None, error |-> "none"]

\* no fetcher is in use
NoFetcher == [UKGasImportsFetcher(0, 0, "periodFrom") EXCEPT !.pc = "idle"]

\* the days of the months of 2020
MonthLengths == <<31, 29, 31, 30, 31, 30, 31, 31, 30, 31, 30, 31>>

\* the day on which month m (from 0) starts
RECURSIVE MonthStart(_)
MonthStart(m) == IF m = 0 THEN 0 ELSE MonthStart(m - 1) + MonthLengths[m]

MonthStarts == {MonthStart(m) : m \in 0..(Len(MonthLengths) - 1)}

\* pd.date_range(start, end, freq="MS"): the first days of a month from start to end
MonthStartRange(start, end) == SortedSeq({d \in MonthStarts : start <= d /\ d <= end})

ts_candidates == <<"period_from", "periodFrom", "gasDayStart", "timestamp">>

\* the rows a query for the chunk from start gives when it gives data: one
\* flow at the start of the chunk
ChunkRows(ts_name, start, value) ==
    <<(ts_name :> <<MidnightOf(start)>>) @@ [value |-> value, unit |-> Text("kWh/d")]>>

\* the text of the unit names kWh
IsKwh(unit) == unit \in {Text("kWh/d"), Text("kWh/h")}

RECURSIVE Flatten(_)
Flatten(frames) == IF frames = <<>> THEN <<>> ELSE frames[1] \o Flatten(Tail(frames))

\* the statements of fetch() after the loop, lines 236 to 289
HourlyTotals(frames, ts_name) ==
    IF frames = <<>> THEN Raise("RuntimeError")
    ELSE IF ts_name \notin Range(ts_candidates) THEN Raise("RuntimeError")
    ELSE LET df == Flatten(frames)
             valued == SelectSeq(df, LAMBDA row : ~IsNull(row["value"]))
         IN  IF valued = <<>> THEN Raise("IndexError")
             ELSE LET unit == valued[1]["unit"]
                      rows == [k \in 1..Len(valued) |->
                                 [timestamp |-> valued[k][ts_name],
                                  MWh_hour |-> IF IsKwh(unit)
                                               THEN Frac(valued[k]["value"][1],
                                                         valued[k]["value"][2] * 1000)
                                               ELSE valued[k]["value"]]]
                      keys == GroupKeys(rows, "timestamp")
                  IN  Ok(Frame(<<"timestamp", "UK_imports_MWh_hour">>,
                               [c \in {"timestamp", "UK_imports_MWh_hour"} |->
                                   IF c = "timestamp" THEN "datetime64" ELSE "float64"],
                               [k \in 1..Len(keys) |->
                                   [timestamp |-> <<keys[k]>>,
                                    UK_imports_MWh_hour |->
                                        AggSum(CellsOf(rows, "timestamp", <<keys[k]>>,
                                                       "MWh_hour"))]]))

FetcherUnchanged ==
    UNCHANGED <<csv, cfg, pc, weather, neso, gas_imports, gas_prices, idx, base,
                output, err, preprocessor, meteo, disk>>

\* gb_points, keys = self._build_uk_point_direction_keys(): the client lists
\* UK entry points, lists none, or fails
BuildKeys ==
    /\ fetcher.pc = "keys"
    /\ \E points \in {"found", "none", "raises"} :
          fetcher' = IF points = "found" THEN [fetcher EXCEPT !.pc = "dates"]
                     ELSE [fetcher EXCEPT !.pc = "raised",
                                          !.error = IF points = "none" THEN "RuntimeError"
                                                    ELSE "ConnectionError"]
    /\ FetcherUnchanged

\* dates = pd.date_range(...); if dates[-1] < end_date: dates.append(end_date)
BuildDates ==
    /\ fetcher.pc = "dates"
    /\ LET dates == MonthStartRange(fetcher.start_date, fetcher.end_date)
       IN  fetcher' =
               IF dates = <<>>
               THEN [fetcher EXCEPT !.pc = "raised", !.error = "IndexError"]
               ELSE [fetcher EXCEPT
                        !.pc = "query",
                        !.dates = IF dates[Len(dates)] < fetcher.end_date
                                  THEN Append(dates, fetcher.end_date) ELSE dates]
    /\ FetcherUnchanged

\* one turn of the loop that stops at the first query that raises
QueryChunkOrStop ==
    /\ fetcher.pc = "query"
    /\ fetcher.i <= Len(fetcher.dates) - 1
    /\ LET start == fetcher.dates[fetcher.i]
           end == fetcher.dates[fetcher.i + 1]
       IN  \E outcome \in {"raises", "empty", "data"}, value \in {NaN, Num(2000)} :
              /\ outcome # "data" => value = NaN
              /\ fetcher' =
                    [fetcher EXCEPT
                        !.queried = Append(@, [start |-> start, end |-> end,
                                               outcome |-> outcome]),
                        !.frames = IF outcome = "data"
                                   THEN Append(@, ChunkRows(fetcher.ts_name, start, value))
                                   ELSE @,
                        !.pc = IF outcome = "raises" THEN "raised" ELSE @,
                        !.error = IF outcome = "raises" THEN "HTTPError" ELSE @,
                        !.i = @ + 1]
    /\ FetcherUnchanged

\* one turn of the loop: the query of chunk i raises, gives no data, or gives
\* data, with or without a number as value
QueryChunk ==
    /\ fetcher.pc = "query"
    /\ fetcher.i <= Len(fetcher.dates) - 1
    /\ LET start == fetcher.dates[fetcher.i]
           end == fetcher.dates[fetcher.i + 1]
       IN  \E outcome \in {"raises", "empty", "data"}, value \in {NaN, Num(2000)} :
              /\ outcome # "data" => value = NaN
              /\ fetcher' =
                    [fetcher EXCEPT
                        !.queried = Append(@, [start |-> start, end |-> end,
                                               outcome |-> outcome]),
                        !.frames = IF outcome = "data"
                                   THEN Append(@, ChunkRows(fetcher.ts_name, start, value))
                                   ELSE @,
                        !.i = @ + 1]
    /\ FetcherUnchanged

\* after the loop: no frames, no timestamp column, or the hourly totals
FinishFetch ==
    /\ fetcher.pc = "query"
    /\ fetcher.i > Len(fetcher.dates) - 1
    /\ LET r == HourlyTotals(fetcher.frames, fetcher.ts_name)
       IN  fetcher' = [fetcher EXCEPT
                          !.pc = IF r.ok THEN "returned" ELSE "raised",
                          !.returned = r.df,
                          !.error = r.error]
    /\ FetcherUnchanged

-----------------------------------------------------------------------------
(* 10) OpenMeteoFetcherUk
       (src/gridscope/data_fetching/uk_open_meteo_fetcher.py)

   self.weather_df is None until build_weather_dataset() has run to its end.
   The sites of a list are numbered from 1, as the loops number them.  The
   column labels of the weather table repeat (pressure_site1 is the name of
   a column of the first city and of the first wind farm), so a weather table
   is [index, columns, rows] with each row the sequence of its cells in the
   order of the columns.  The archive is the environment: it answers a
   request with an HTTP error or with the hours it holds from the start date
   on, by rising time.  The record keeps the object's fields and the outcome
   of its last call, as the record of the preprocessor does. *)

\* the numbers of sites in the three lists of __init__
DEMAND_TEMP_SITES == 10
WIND_SITES == 8
SOLAR_SITES == 7

\* OpenMeteoFetcherUk(start_date, end_date): self.weather_df = None
OpenMeteoFetcherUk(start_date, end_date) ==
    [start_date |-> start_date, end_date |-> end_date, weather_df |-> None,
     call |-> "none", returned |-> None, error |-> "none", message |-> ""]

\* no OpenMeteoFetcherUk is in use: one without dates, which is never called
NoMeteo == OpenMeteoFetcherUk("", "")

\* no directory is in use
NoDisk == [kind |-> "absent", files |-> {}]

\* the text of a day of January 2020, as start_date and end_date hold it
DateString(d) == "2020-01-" \o (IF d + 1 < 10 THEN "0" ELSE "") \o ToString(d + 1)

\* the midnight a text of a day names, as the archive and pd.to_datetime read it
ParseDateString(s) == MidnightOf(CHOOSE d \in 0..30 : DateString(d) = s)

WeatherTable(index, columns, rows) == [index |-> index, columns |-> columns, rows |-> rows]

\* the hourly variables asked for a city, a wind farm and a solar site, and
\* the names their columns are renamed to, before the number of the site
Requested ==
    [temp |-> <<"temperature_2m", "relative_humidity_2m", "precipitation",
                "dew_point_2m", "pressure_msl", "cloud_cover">>,
     wind |-> <<"wind_speed_100m", "wind_direction_100m", "pressure_msl",
                "temperature_2m", "relative_humidity_2m", "precipitation">>,
     solar |-> <<"shortwave_radiation", "cloud_cover", "pressure_msl",
                 "temperature_2m", "relative_humidity_2m", "precipitation">>]

Renamed ==
    [temp |-> <<"temp_site", "humidity_site", "precip_site",
                "dewpoint_site", "pressure_site", "cloud_site">>,
     wind |-> <<"wind_speed_site", "wind_dir_site", "pressure_site",
                "temp_site_wind", "humidity_site_wind", "precip_site_wind">>,
     solar |-> <<"solar_rad_site", "cloud_site_solar", "pressure_site_solar",
                 "temp_site_solar", "humidity_site_solar", "precip_site_solar">>]

\* the requests of build_weather_dataset in the order it sends them
Requests ==
    [i \in 1..DEMAND_TEMP_SITES |-> [kind |-> "temp", i |-> i]]
    \o [i \in 1..WIND_SITES |-> [kind |-> "wind", i |-> i]]
    \o [i \in 1..SOLAR_SITES |-> [kind |-> "solar", i |-> i]]

\* requests.get: the answer of the archive to the k-th request of a call.
\* archive.failed is the request it answers with an HTTP error (0: none),
\* archive.hours the number of hours it holds; a reading rises by one an hour
requests_get(self, k, hourly, archive) ==
    IF k = archive.failed THEN [status |-> "error"]
    ELSE [status |-> "ok",
          time |-> [h \in 1..archive.hours |->
                       <<ParseDateString(self.start_date) + (h - 1) * 60>>] \o <<>>,
          hourly |-> [v \in 1..Len(hourly) |->
                         [h \in 1..archive.hours |->
                             Num(k + v + (h - 1))] \o <<>>] \o <<>>]

\* fetch_openmeteo_hourly: raise_for_status, then the table of the answer,
\* its times as the index
fetch_openmeteo_hourly(self, k, hourly, archive) ==
    LET r == requests_get(self, k, hourly, archive)
    IN  IF r.status = "error" THEN Raise("HTTPError")
        ELSE Ok(WeatherTable(r.time, hourly,
                             [h \in 1..Len(r.time) |->
                                 [v \in 1..Len(hourly) |-> r.hourly[v][h]] \o <<>>] \o <<>>))

\* the times of a set by rising time
RECURSIVE SortedTimes(_)
SortedTimes(times) ==
    IF times = {} THEN <<>>
    ELSE LET t == CHOOSE x \in times : \A y \in times : x[1] <= y[1]
         IN  <<t>> \o SortedTimes(times \ {t})

\* pd.concat(all_dfs, axis=1): the columns of the tables side by side on the
\* union of their indexes, a table without a time giving no values at it
ConcatColumns(all_dfs) ==
    LET index == SortedTimes(UNION {Range(all_dfs[k].index) : k \in 1..Len(all_dfs)})
        RECURSIVE Side(_, _)
        Side(t, k) ==
            IF k > Len(all_dfs) THEN <<>>
            ELSE LET df == all_dfs[k]
                     at == {h \in 1..Len(df.index) : df.index[h] = t}
                 IN  (IF at = {} THEN [v \in 1..Len(df.columns) |-> NaN]
                      ELSE df.rows[CHOOSE h \in at : TRUE])
                     \o Side(t, k + 1)
        RECURSIVE Columns(_)
        Columns(k) ==
            IF k > Len(all_dfs) THEN <<>> ELSE all_dfs[k].columns \o Columns(k + 1)
    IN  WeatherTable(index, Columns(1),
                     [h \in 1..Len(index) |-> Side(index[h], 1)] \o <<>>)

\* resample("30T").interpolate("time"): every half hour from the first time
\* to the last; a slot between two values of a column lies on their line in
\* time, which on slots of equal length is their line by position
ResampleInterpolateTime(df) ==
    IF df.index = <<>> THEN df
    ELSE LET first == df.index[1][1]
             last == df.index[Len(df.index)][1]
             slots == [s \in 1..((last - first) \div PeriodMinutes + 1) |->
                          <<first + (s - 1) * PeriodMinutes>>] \o <<>>
             from == [s \in 1..Len(slots) |->
                         LET at == {h \in 1..Len(df.index) : df.index[h] = slots[s]}
                         IN  IF at = {} THEN 0 ELSE CHOOSE h \in at : TRUE] \o <<>>
             column(c) ==
                 InterpolateLinear(
                     [s \in 1..Len(slots) |->
                         IF from[s] = 0 THEN NaN ELSE df.rows[from[s]][c]] \o <<>>) \o <<>>
             columns == [c \in 1..Len(df.columns) |-> column(c)] \o <<>>
         IN  WeatherTable(slots, df.columns,
                          [s \in 1..Len(slots) |->
                              [c \in 1..Len(df.columns) |-> columns[c][s]] \o <<>>] \o <<>>)

\* build_weather_dataset(interpolate_to_30min): one request a site, the
\* first HTTP error ending the call; the renamed tables side by side, on
\* half hours when asked
build_weather_dataset(self, interpolate_to_30min, archive) ==
    LET fetched == [k \in 1..Len(Requests) |->
                       fetch_openmeteo_hourly(self, k, Requested[Requests[k].kind], archive)]
                   \o <<>>
    IN  IF \E k \in 1..Len(Requests) : ~fetched[k].ok THEN Raise("HTTPError")
        ELSE LET all_dfs ==
                     [k \in 1..Len(Requests) |->
                         WeatherTable(fetched[k].df.index,
                                      [v \in 1..Len(fetched[k].df.columns) |->
                                          Renamed[Requests[k].kind][v]
                                              \o ToString(Requests[k].i)] \o <<>>,
                                      fetched[k].df.rows)] \o <<>>
                 df_all == ConcatColumns(all_dfs)
             IN  Ok(IF interpolate_to_30min THEN ResampleInterpolateTime(df_all)
                    ELSE df_all)

\* the name of the file save_to_csv writes
csv_filename(self) ==
    "uk_raw_weather_sites_start-" \o self.start_date \o "_end-" \o self.end_date \o ".csv"

\* dir_to_csv.mkdir(parents=True, exist_ok=True): the directory exists
\* afterwards, unless a file has its name
mkdir(dir_to_csv) ==
    IF dir_to_csv.kind = "file" THEN Raise("FileExistsError")
    ELSE Ok([dir_to_csv EXCEPT !.kind = "directory"])

\* weather_df.to_csv(csv_file): the file of that name holds the table
to_csv(dir, name, df) ==
    [dir EXCEPT !.files = {f \in @ : f.name # name} \union {[name |-> name, table |-> df]}]

\* the outcome of a call and the directory after it
Saved(r, dir) == [ok |-> r.ok, error |-> r.error, message |-> Message(r), disk |-> dir]

\* a save_to_csv that makes the directory before it looks for the table
save_to_csv_mkdir_first(self, dir_to_csv) ==
    LET made == mkdir(dir_to_csv)
    IN  IF ~made.ok THEN Saved(made, dir_to_csv)
        ELSE IF self.weather_df = None
        THEN Saved(RaiseMessage("ValueError", "No weather data has been fetched yet!"), made.df)
        ELSE Saved(Ok(None), to_csv(made.df, csv_filename(self), self.weather_df))

\* save_to_csv(dir_to_csv)
save_to_csv(self, dir_to_csv) ==
    IF self.weather_df = None
    THEN Saved(RaiseMessage("ValueError", "No weather data has been fetched yet!"), dir_to_csv)
    ELSE LET made == mkdir(dir_to_csv)
         IN  IF ~made.ok THEN Saved(made, dir_to_csv)
             ELSE Saved(Ok(None), to_csv(made.df, csv_filename(self), self.weather_df))

\* what the archive may hold and do during a call: one hour or MaxHours
\* hours, every request answered or the last one failing
Archives ==
    [hours : {1, MaxHours}, failed : {0, Len(Requests)}]

\* a call of build_weather_dataset(interpolate_to_30min)
BuildWeatherDataset ==
    /\ meteo.start_date # ""
    /\ \E interpolate_to_30min \in BOOLEAN, archive \in Archives :
          LET r == build_weather_dataset(meteo, interpolate_to_30min, archive)
          IN  meteo' = [meteo EXCEPT
                           !.weather_df = IF r.ok THEN r.df ELSE @,
                           !.call = "build_weather_dataset",
                           !.returned = r.df,
                           !.error = r.error,
                           !.message = Message(r)]
    /\ UNCHANGED <<csv, cfg, pc, weather, neso, gas_imports, gas_prices, idx, base,
                   output, err, preprocessor, fetcher, disk>>

\* a call of save_to_csv(dir_to_csv)
SaveToCsv ==
    /\ meteo.start_date # ""
    /\ LET r == save_to_csv(meteo, disk)
       IN  /\ meteo' = [meteo EXCEPT
                           !.call = "save_to_csv",
                           !.returned = None,
                           !.error = r.error,
                           !.message = r.message]
           /\ disk' = r.disk
    /\ UNCHANGED <<csv, cfg, pc, weather, neso, gas_imports, gas_prices, idx, base,
                   output, err, preprocessor, fetcher>>

-----------------------------------------------------------------------------
(* The CSV files the runs are checked on *)

CsvFile(columns, rows) ==
    [exists |-> TRUE, columns |-> columns,
     dtypes |-> [c \in Range(columns) |->
                    IF c \in {"datetime", "timestamp", "date"} THEN "datetime64"
                    ELSE IF c \in {"SETTLEMENT_DATE", "unit"} THEN "object" ELSE "float64"],
     rows |-> rows]

\* rows cut into f files at the places cuts names
SplitRows(rows, cuts, f) ==
    [i \in 1..f |->
        SubSeq(rows, (IF i = 1 THEN 0 ELSE cuts[i - 1]) + 1,
                     IF i = f THEN Len(rows) ELSE cuts[i])]

\* the ways to cut n rows into f files
Cuts(n, f) == {c \in [1..(f - 1) -> 0..n] : \A i \in 1..(f - 2) : c[i] <= c[i + 1]}

\* the f files that hold the rows, cut at cuts
Files(columns, rows, cuts, f) ==
    [i \in 1..f |-> CsvFile(columns, SplitRows(rows, cuts, f)[i])]

WeatherColumns == <<"datetime", "temp_site1">>

WeatherRows ==
    { [datetime |-> <<t>>, temp_site1 |-> v] :
        t \in {0, 720, DayMinutes}, v \in {NaN, Num(1), Num(2)} }

NesoColumns == <<"SETTLEMENT_DATE", "SETTLEMENT_PERIOD", "ND", "IFA_FLOW">>

NesoRows ==
    { [SETTLEMENT_DATE |-> <<d>>, SETTLEMENT_PERIOD |-> <<p>>, ND |-> x[1], IFA_FLOW |-> x[2]] :
        d \in {0, 1}, p \in {1, 3, 49},
        x \in {<<Num(2), Num(3)>>, <<NaN, NaN>>} }

ImportColumns == <<"timestamp", "UK_imports_MWh_hour">>

ImportRows ==
    { [timestamp |-> <<t>>, UK_imports_MWh_hour |-> v] :
        t \in {0, 60, DayMinutes}, v \in {NaN, Num(1), Num(2)} }

PriceFileColumns == <<"date", "SAP_p_per_kWh", "SAP_GBP_per_MWh">>

PriceRow(d, p) == [date |-> <<MidnightOf(d)>>, SAP_p_per_kWh |-> Num(p), SAP_GBP_per_MWh |-> Num(10 * p)]

\* a file with its header line and no rows
EmptyFile(columns) == CsvFile(columns, <<>>)

NotStarted ==
    /\ pc = "load_weather"
    /\ weather = None /\ neso = None /\ gas_imports = None /\ gas_prices = None
    /\ idx = None /\ base = None /\ output = None
    /\ err = "none"
    /\ preprocessor = NoPreprocessor
    /\ fetcher = NoFetcher
    /\ meteo = NoMeteo
    /\ disk = NoDisk

FullRange == [start |-> 0, end |-> MidnightOf(MaxGridDays - 1)]

\* weather files of every shape, the other sources empty
InitWeather ==
    /\ NotStarted
    /\ cfg = FullRange
    /\ \E n \in 0..MaxRows, f \in 1..MaxFiles :
       \E rows \in [1..n -> WeatherRows], cuts \in Cuts(n, f) :
          csv = [weather |-> Files(WeatherColumns, rows, cuts, f),
                 neso |-> <<EmptyFile(NesoColumns)>>,
                 gas_imports |-> <<EmptyFile(ImportColumns)>>,
                 gas_prices |-> EmptyFile(PriceFileColumns)]

SpecWeather == InitWeather /\ [][LoadWeather]_vars

\* the file without the columns that are not in columns
Project(file, columns) ==
    CsvFile(columns, [i \in 1..Len(file.rows) |-> [c \in Range(columns) |-> file.rows[i][c]]])

NesoKeyColumns == <<"SETTLEMENT_DATE", "SETTLEMENT_PERIOD">>

\* the files, those named in bare without the ND and IFA_FLOW columns
WithoutOptional(files, bare) ==
    [i \in 1..Len(files) |->
        IF i \in bare THEN Project(files[i], NesoKeyColumns) ELSE files[i]]

\* demand files of every shape, each with or without the ND and IFA_FLOW columns
InitNeso ==
    /\ NotStarted
    /\ cfg = FullRange
    /\ \E n \in 0..MaxNesoRows, f \in 1..MaxFiles :
       \E rows \in [1..n -> NesoRows], cuts \in Cuts(n, f), bare \in SUBSET (1..f) :
          csv = [weather |-> <<EmptyFile(WeatherColumns)>>,
                 neso |-> WithoutOptional(Files(NesoColumns, rows, cuts, f), bare),
                 gas_imports |-> <<EmptyFile(ImportColumns)>>,
                 gas_prices |-> EmptyFile(PriceFileColumns)]

SpecNeso == InitNeso /\ [][LoadWeather \/ LoadNeso]_vars

\* demand rows whose settlement date is a date or text that is no date
DatedRows ==
    { [SETTLEMENT_DATE |-> d, SETTLEMENT_PERIOD |-> <<p>>, ND |-> Num(2), IFA_FLOW |-> Num(3)] :
        d \in {<<0>>, <<1>>, BadDate}, p \in {1, 49} }

\* demand files whose rows carry dates that parse and dates that do not
InitNesoDates ==
    /\ NotStarted
    /\ cfg = FullRange
    /\ \E n \in 0..MaxNesoRows, f \in 1..MaxFiles :
       \E rows \in [1..n -> DatedRows], cuts \in Cuts(n, f) :
          csv = [weather |-> <<EmptyFile(WeatherColumns)>>,
                 neso |-> Files(NesoColumns, rows, cuts, f),
                 gas_imports |-> <<EmptyFile(ImportColumns)>>,
                 gas_prices |-> EmptyFile(PriceFileColumns)]

SpecNesoDates == InitNesoDates /\ [][LoadWeather \/ LoadNeso]_vars

\* gas import files of every shape
InitImports ==
    /\ NotStarted
    /\ cfg = FullRange
    /\ \E n \in 0..MaxRows, f \in 1..MaxFiles :
       \E rows \in [1..n -> ImportRows], cuts \in Cuts(n, f) :
          csv = [weather |-> <<EmptyFile(WeatherColumns)>>,
                 neso |-> <<EmptyFile(NesoColumns)>>,
                 gas_imports |-> Files(ImportColumns, rows, cuts, f),
                 gas_prices |-> EmptyFile(PriceFileColumns)]

SpecImports == InitImports /\ [][LoadWeather \/ LoadNeso \/ LoadGasImports]_vars

\* the index over ranges of every length, whole days or not
InitGrid ==
    /\ NotStarted
    /\ \E s \in {0, PeriodMinutes, DayMinutes} :
       \E n \in 0..(2 * MaxGridDays) :
          cfg = [start |-> s, end |-> s + n * (DayMinutes \div 2)]
    /\ csv = [weather |-> <<EmptyFile(WeatherColumns)>>,
              neso |-> <<EmptyFile(NesoColumns)>>,
              gas_imports |-> <<EmptyFile(ImportColumns)>>,
              gas_prices |-> EmptyFile(PriceFileColumns)]

SpecGrid == InitGrid /\ [][Next]_vars

\* a whole run of save(): a weather file whose value column is temp_site1 or
\* carries the name of a demand column, each of weather, demand and gas
\* imports with one row or none, the row of the gas imports with a text
\* column next to its value, and gas prices on any days, also the same day
\* twice and the day after the end of the grid
RunWeatherFiles ==
    { CsvFile(<<"datetime", c>>, rows) :
        <<c, rows>> \in {"temp_site1", "ND"} \X {<<>>, <<DayMinutes>>} }

RunWeather ==
    { CsvFile(f.columns,
              [i \in 1..Len(f.rows) |->
                  [c \in Range(f.columns) |->
                      IF c = "datetime" THEN <<f.rows[i]>> ELSE Num(1)]]) :
        f \in RunWeatherFiles }

RunNeso ==
    { CsvFile(NesoColumns, rows) :
        rows \in {<<>>} \cup
                 {<<[SETTLEMENT_DATE |-> <<d>>, SETTLEMENT_PERIOD |-> <<1>>,
                     ND |-> Num(2), IFA_FLOW |-> Num(3)]>> : d \in {1}} }

RunImports ==
    { CsvFile(ImportColumns, <<>>),
      CsvFile(ImportColumns \o <<"unit">>,
              <<[timestamp |-> <<60>>, UK_imports_MWh_hour |-> Num(1), unit |-> Text("MWh")]>>) }

PriceRows == {PriceRow(d, p) : d \in 0..MaxGridDays, p \in {5, 7}}

Init ==
    /\ NotStarted
    /\ cfg = FullRange
    /\ \E w \in RunWeather, n \in RunNeso, g \in RunImports, k \in 0..MaxPriceRows :
       \E rows \in [1..k -> PriceRows] :
          csv = [weather |-> <<w>>, neso |-> <<n>>, gas_imports |-> <<g>>,
                 gas_prices |-> CsvFile(PriceFileColumns, rows)]

Spec == Init /\ [][Next]_vars

\* a path with no file behind it
MissingFile(columns) == [EmptyFile(columns) EXCEPT !.exists = FALSE]

\* a file with its header line only, without the columns named in keys
HeaderWithout(columns, keys) ==
    LET kept(c) == c \notin keys
    IN  EmptyFile(SelectSeq(columns, kept))

\* one source: a file with one row, no file, or a file without its time columns
SourceCases(columns, keys, row) ==
    {CsvFile(columns, <<row>>), MissingFile(columns), HeaderWithout(columns, keys)}

\* runs of save() in which each source is sound, has no file or has no time
\* column; sound sources bring one row, weather and demand on the second day,
\* gas imports and gas prices on the first
InitErrors ==
    /\ NotStarted
    /\ cfg = FullRange
    /\ \E w \in SourceCases(WeatherColumns, {"datetime"},
                            [datetime |-> <<DayMinutes>>, temp_site1 |-> Num(1)]),
          n \in SourceCases(NesoColumns, Range(NesoKeyColumns),
                            [SETTLEMENT_DATE |-> <<1>>, SETTLEMENT_PERIOD |-> <<1>>,
                             ND |-> Num(2), IFA_FLOW |-> Num(3)]),
          g \in SourceCases(ImportColumns, {"timestamp"},
                            [timestamp |-> <<60>>, UK_imports_MWh_hour |-> Num(1)]),
          p \in SourceCases(PriceFileColumns, {"date"}, PriceRow(0, 5)) :
          csv = [weather |-> <<w>>, neso |-> <<n>>, gas_imports |-> <<g>>, gas_prices |-> p]

SpecErrors == InitErrors /\ [][Next]_vars

\* the day has no row in the price file
Absent == <<0, 0, 0, 0>>

RawRow(d, price) == ("Date" :> <<MidnightOf(d)>>) @@ ("SAP actual day" :> price)

\* the rows of the days from d to n - 1 that have one, by rising date
RECURSIVE RawRows(_, _, _)
RawRows(prices, d, n) ==
    IF d >= n THEN <<>>
    ELSE (IF prices[d] = Absent THEN <<>> ELSE <<RawRow(d, prices[d])>>)
         \o RawRows(prices, d + 1, n)

Reverse(rows) == [i \in 1..Len(rows) |-> rows[Len(rows) + 1 - i]]

\* a preprocessor on a price file in which each day has no row, a row
\* without a price, or a row with the price 5 or 7, by rising or by falling
\* date; or on a path without a file
InitInterpolate ==
    /\ pc = "load_weather"
    /\ weather = None /\ neso = None /\ gas_imports = None /\ gas_prices = None
    /\ idx = None /\ base = None /\ output = None
    /\ err = "none"
    /\ fetcher = NoFetcher
    /\ meteo = NoMeteo
    /\ disk = NoDisk
    /\ cfg = FullRange
    /\ csv = [weather |-> <<EmptyFile(WeatherColumns)>>,
              neso |-> <<EmptyFile(NesoColumns)>>,
              gas_imports |-> <<EmptyFile(ImportColumns)>>,
              gas_prices |-> EmptyFile(PriceFileColumns)]
    /\ \/ preprocessor = NoPreprocessor
       \/ \E prices \in [0..(MaxPriceDays - 1) -> {Absent, NaN, Num(5), Num(7)}],
             falling \in BOOLEAN, convert_to_gbp_mwh \in BOOLEAN :
             LET rows == RawRows(prices, 0, MaxPriceDays)
             IN  preprocessor =
                     GasPricePreprocessor(
                         [exists |-> TRUE, rows |-> IF falling THEN Reverse(rows) ELSE rows],
                         convert_to_gbp_mwh)

SpecInterpolate == InitInterpolate /\ [][Load \/ InterpolateHalfHourly]_vars

\* a weather fetcher for the first days of January 2020 and a place for its
\* file that is free, a directory, or taken by a file
InitMeteo ==
    /\ pc = "load_weather"
    /\ weather = None /\ neso = None /\ gas_imports = None /\ gas_prices = None
    /\ idx = None /\ base = None /\ output = None
    /\ err = "none"
    /\ preprocessor = NoPreprocessor
    /\ fetcher = NoFetcher
    /\ cfg = FullRange
    /\ csv = [weather |-> <<EmptyFile(WeatherColumns)>>,
              neso |-> <<EmptyFile(NesoColumns)>>,
              gas_imports |-> <<EmptyFile(ImportColumns)>>,
              gas_prices |-> EmptyFile(PriceFileColumns)]
    /\ \E end_date \in 0..(MaxMeteoDays - 1) :
          meteo = OpenMeteoFetcherUk(DateString(0), DateString(end_date))
    /\ \E kind \in {"absent", "directory", "file"} : disk = [NoDisk EXCEPT !.kind = kind]

\* a preprocessor on a price file in which each day has no row, a row
\* without a price, or a row with the price 5, by rising or by falling date
InitPrices ==
    /\ pc = "load_weather"
    /\ weather = None /\ neso = None /\ gas_imports = None /\ gas_prices = None
    /\ idx = None /\ base = None /\ output = None
    /\ err = "none"
    /\ fetcher = NoFetcher
    /\ meteo = NoMeteo
    /\ disk = NoDisk
    /\ cfg = FullRange
    /\ csv = [weather |-> <<EmptyFile(WeatherColumns)>>,
              neso |-> <<EmptyFile(NesoColumns)>>,
              gas_imports |-> <<EmptyFile(ImportColumns)>>,
              gas_prices |-> EmptyFile(PriceFileColumns)]
    /\ \E prices \in [0..(MaxPriceDays - 1) -> {Absent, NaN, Num(5)}], falling \in BOOLEAN :
          LET rows == RawRows(prices, 0, MaxPriceDays)
          IN  preprocessor =
                  GasPricePreprocessor(
                      [exists |-> TRUE, rows |-> IF falling THEN Reverse(rows) ELSE rows],
                      TRUE)

\* the objects whose operations need the result of an earlier stage: a
\* preprocessor on a price file, or a weather fetcher beside a preprocessor
\* without a file, their operations called in any order
InitStages == InitPrices \/ InitMeteo

NextStages == Load \/ InterpolateHalfHourly \/ BuildWeatherDataset \/ SaveToCsv

SpecStages == InitStages /\ [][NextStages]_vars

\* the first and the fifteenth day of the first months of 2020
FetchDates == UNION {{MonthStart(m), MonthStart(m) + 14} : m \in 0..(MaxMonths - 1)}

\* a fetcher for a range of dates, start_date not after end_date, and a client
\* that names the start of a flow period periodFrom or periodStart
InitFetch ==
    /\ pc = "load_weather"
    /\ weather = None /\ neso = None /\ gas_imports = None /\ gas_prices = None
    /\ idx = None /\ base = None /\ output = None
    /\ err = "none"
    /\ preprocessor = NoPreprocessor
    /\ meteo = NoMeteo
    /\ disk = NoDisk
    /\ cfg = FullRange
    /\ csv = [weather |-> <<EmptyFile(WeatherColumns)>>,
              neso |-> <<EmptyFile(NesoColumns)>>,
              gas_imports |-> <<EmptyFile(ImportColumns)>>,
              gas_prices |-> EmptyFile(PriceFileColumns)]
    /\ \E start_date \in FetchDates, end_date \in FetchDates,
          ts_name \in {"periodFrom", "periodStart"} :
          /\ start_date <= end_date
          /\ fetcher = UKGasImportsFetcher(start_date, end_date, ts_name)

NextFetch == BuildKeys \/ BuildDates \/ QueryChunk \/ FinishFetch

SpecFetch == InitFetch /\ [][NextFetch]_vars

-----------------------------------------------------------------------------
(* What the claims are stated with: the rows of the files themselves *)

\* the places <<file, row>> of the rows of a list of files
Places(paths) == UNION {{<<i, k>> : k \in 1..Len(paths[i].rows)} : i \in 1..Len(paths)}

RowAt(paths, p) == paths[p[1]].rows[p[2]]

\* the number of rows in the files before file i
RECURSIVE RowsBefore(_, _)
RowsBefore(paths, i) ==
    IF i <= 1 THEN 0 ELSE RowsBefore(paths, i - 1) + Len(paths[i - 1].rows)

\* the sum of the whole numbers held by column c at the places P
RECURSIVE SumAt(_, _, _)
SumAt(paths, P, c) ==
    IF P = {} THEN 0
    ELSE LET p == CHOOSE q \in P : TRUE
         IN  RowAt(paths, p)[c][1] + SumAt(paths, P \ {p}, c)

\* the rows of a daily table that carry the timestamp ts
RowsWith(df, ts) == {i \in 1..Len(df.rows) : df.rows[i]["timestamp"] = ts}

\* cell is the number sum/count
IsQuotient(cell, sum, count) == ~IsNull(cell) /\ cell[1] * count = sum * cell[2]

-----------------------------------------------------------------------------
(* The weather rows of the files *)

WeatherDays == {RowAt(csv.weather, p)["datetime"][1] \div DayMinutes : p \in Places(csv.weather)}

(* C8: _load_concat keeps every row of every listed file in file-then-row
   order, duplicates included, and the daily weather mean of a day is the
   average over all of the day's rows that hold a value, each duplicate
   counted as often as it is listed. *)
C8_ConcatKeepsDuplicates ==
    (pc = "load_neso" /\ err = "none") =>
        LET files == csv.weather
            cat == _load_concat(files).df.rows
        IN  /\ Len(cat) = RowsBefore(files, Len(files) + 1)
            /\ \A p \in Places(files) : cat[RowsBefore(files, p[1]) + p[2]] = RowAt(files, p)
            /\ \A i \in 1..Len(weather.rows) :
                  weather.rows[i]["timestamp"][1] \div DayMinutes \in WeatherDays
            /\ \A d \in WeatherDays :
                  LET P == {p \in Places(files) :
                              RowAt(files, p)["datetime"][1] \div DayMinutes = d}
                      V == {p \in P : ~IsNull(RowAt(files, p)["temp_site1"])}
                      R == RowsWith(weather, <<MidnightOf(d)>>)
                  IN  /\ Cardinality(R) = 1
                      /\ \A i \in R :
                            IF V = {} THEN IsNull(weather.rows[i]["temp_site1"])
                            ELSE IsQuotient(weather.rows[i]["temp_site1"],
                                            SumAt(files, V, "temp_site1"), Cardinality(V))

\* the same row listed in two files and a third row of the day: (1 + 1 + 2) / 3
C8_Witness ==
    /\ pc = "load_neso"
    /\ Len(csv.weather) = 2
    /\ csv.weather[1].rows = <<[datetime |-> <<0>>, temp_site1 |-> Num(1)]>>
    /\ csv.weather[2].rows = <<[datetime |-> <<0>>, temp_site1 |-> Num(1)],
                               [datetime |-> <<720>>, temp_site1 |-> Num(2)]>>
    /\ weather.rows = <<[timestamp |-> <<0>>, temp_site1 |-> <<4, 3>>]>>

-----------------------------------------------------------------------------
(* The demand rows of the files, and the day each falls on *)

NesoPlaces == Places(csv.neso)

SettlementDay(p) == RowAt(csv.neso, p)["SETTLEMENT_DATE"][1]

SettlementPeriod(p) == RowAt(csv.neso, p)["SETTLEMENT_PERIOD"][1]

\* minutes from the start of the grid to the start of the row's settlement period
PeriodStart(p) == SettlementDay(p) * 24 * 60 + (SettlementPeriod(p) - 1) * 30

SlotOf(p) == PeriodStart(p) \div (24 * 60)

NesoLoaded == pc = "load_gas_imports" /\ err = "none"

\* the value of column c in the row at place p, 0 where the row has none
ValueOrDefault(p, c) ==
    LET row == RowAt(csv.neso, p)
    IN  IF c \in DOMAIN row /\ ~IsNull(row[c]) THEN row[c][1] ELSE 0

RECURSIVE SumWithDefault(_, _)
SumWithDefault(P, c) ==
    IF P = {} THEN 0
    ELSE LET p == CHOOSE q \in P : TRUE
         IN  ValueOrDefault(p, c) + SumWithDefault(P \ {p}, c)

(* C4: a demand row of settlement date d and period p gets the timestamp
   midnight of d plus (p - 1) * 30 minutes (period 1: midnight, period 3:
   01:00), and the row is aggregated into the day of that timestamp. *)
C4_PeriodTimestamp ==
    NesoLoaded =>
        /\ \A p \in NesoPlaces :
              LET row == RowAt(csv.neso, p)
                  ts == SettlementTimestamp(ToDatetimeCoerce(row["SETTLEMENT_DATE"]),
                                            row["SETTLEMENT_PERIOD"])
              IN  /\ ts = <<PeriodStart(p)>>
                  /\ SettlementPeriod(p) = 1 => ts = <<SettlementDay(p) * 24 * 60>>
                  /\ SettlementPeriod(p) = 3 => ts = <<SettlementDay(p) * 24 * 60 + 60>>
                  /\ Cardinality(RowsWith(neso, <<SlotOf(p) * 24 * 60>>)) = 1
        /\ \A i \in 1..Len(neso.rows) :
              \E p \in NesoPlaces : neso.rows[i]["timestamp"] = <<SlotOf(p) * 24 * 60>>

\* period 3 of day 0 is 01:00 of day 0, period 49 of day 0 falls on day 1
C4_Witness ==
    /\ NesoLoaded
    /\ \E p \in NesoPlaces :
          SettlementDay(p) = 0 /\ SettlementPeriod(p) = 3 /\ PeriodStart(p) = 60
    /\ \E p \in NesoPlaces : SettlementDay(p) = 0 /\ SettlementPeriod(p) = 49
    /\ Len(neso.rows) = 2
    /\ neso.rows[2]["timestamp"] = <<24 * 60>>

SumColumns == {c \in Range(required) : agg_rules[c] = "sum"}

(* C5: every demand column reduced with sum holds, for every day, the sum
   over all rows of the day of the row's value, a value the row lacks
   counted as 0. *)
C5_SumWithDefault ==
    NesoLoaded =>
        \A i \in 1..Len(neso.rows) : \A c \in SumColumns :
            LET P == {p \in NesoPlaces : <<SlotOf(p) * 24 * 60>> = neso.rows[i]["timestamp"]}
            IN  neso.rows[i][c] = <<SumWithDefault(P, c), 1>>

\* a day with a flow of 3 in one row and none in the other, from a file
\* with the column and a file without it
C5_Witness ==
    /\ NesoLoaded
    /\ Len(csv.neso) = 2
    /\ "IFA_FLOW" \in Range(csv.neso[1].columns)
    /\ "IFA_FLOW" \notin Range(csv.neso[2].columns)
    /\ Len(csv.neso[1].rows) = 1 /\ Len(csv.neso[2].rows) = 1
    /\ SlotOf(<<1, 1>>) = SlotOf(<<2, 1>>)
    /\ neso.rows[1]["IFA_FLOW"] = <<3, 1>>
    /\ neso.rows[1]["NSL_FLOW"] = <<0, 1>>

(* C6: every demand column reduced with mean holds, for every day, the sum
   over all rows of the day of the row's value, a value the row lacks
   counted as 0, divided by the number of all rows of the day. *)
C6_MeanCountsDefault ==
    NesoLoaded =>
        \A i \in 1..Len(neso.rows) : \A c \in MeanColumns :
            LET P == {p \in NesoPlaces : <<SlotOf(p) * 24 * 60>> = neso.rows[i]["timestamp"]}
            IN  IsQuotient(neso.rows[i][c], SumWithDefault(P, c), Cardinality(P))

-----------------------------------------------------------------------------
(* The gas import rows of the files, in file-then-row order *)

ImportPlaces == Places(csv.gas_imports)

ImportDay(p) == RowAt(csv.gas_imports, p)["timestamp"][1] \div (24 * 60)

Earlier(p, q) == p[1] < q[1] \/ (p[1] = q[1] /\ p[2] <= q[2])

(* C7: after load_gas_imports_daily every column of a day holds the value of
   the day's earliest row in file-then-row order, also when that row has no
   value for the column. *)
C7_FirstRowOfDay ==
    (pc = "load_gas_prices" /\ err = "none") =>
        \A i \in 1..Len(gas_imports.rows) :
            LET P == {p \in ImportPlaces :
                        <<ImportDay(p) * 24 * 60>> = gas_imports.rows[i]["timestamp"]}
                first == CHOOSE p \in P : \A q \in P : Earlier(p, q)
            IN  gas_imports.rows[i]["gas_imports_MWh_daily"]
                    = RowAt(csv.gas_imports, first)["UK_imports_MWh_hour"]

-----------------------------------------------------------------------------
(* The merged table *)

Joining == {"merge_neso", "merge_gas_imports", "merge_gas_prices"}

AfterJoins == {"ffill", "to_csv", "done"}

(* C1: whatever the source tables hold, the merged table has as many rows as
   the daily index and its timestamp column is the daily index, value for
   value. *)
C1_RowsAreTheGrid ==
    pc \in Joining \cup AfterJoins =>
        /\ Len(base.rows) = Len(idx)
        /\ \A i \in 1..Len(base.rows) : base.rows[i]["timestamp"] = <<idx[i]>>

(* C2: the daily index over [start, end] has floor((end - start) / day) + 1
   entries, begins at start, and each entry is exactly one day after the one
   before it, so it rises strictly and repeats no timestamp. *)
C2_GridShape ==
    pc \in {"merge_weather"} \cup Joining \cup AfterJoins =>
        /\ Len(idx) = (cfg.end - cfg.start) \div (24 * 60) + 1
        /\ idx[1] = cfg.start
        /\ \A i \in 1..(Len(idx) - 1) : idx[i + 1] = idx[i] + 24 * 60
        /\ \A i, j \in 1..Len(idx) : i < j => idx[i] < idx[j]
        /\ Cardinality(Range(idx)) = Len(idx)

\* a range of two and a half days that starts at 00:30: three entries
C2_Witness ==
    /\ pc = "done"
    /\ Len(idx) = 3
    /\ cfg.end - cfg.start = 2 * 24 * 60 + 12 * 60
    /\ cfg.start = 30

FilledColumns(df) == {c \in Range(df.columns) : df.dtypes[c] = "float64"}

\* cells is the column before the fill and after is the column after it
IsForwardFilled(cells, after) ==
    /\ Len(after) = Len(cells)
    /\ \A i \in 1..Len(cells) :
          LET J == {j \in 1..i : ~IsNull(cells[j])}
          IN  IF J = {} THEN IsNull(after[i])
              ELSE after[i] = cells[CHOOSE j \in J : \A k \in J : k <= j]
    /\ \A i \in 1..(Len(cells) - 2) :
          (cells[i] = <<5, 1>> /\ IsNull(cells[i + 1]) /\ cells[i + 2] = <<7, 1>>)
              => (after[i + 1] = <<5, 1>> /\ after[i + 1] # <<6, 1>>)

(* C3: the forward fill leaves a slot of a filled column missing when no slot
   at or above it held a value, and otherwise gives it the value of the
   nearest slot at or above it that held one; 5, nothing, 7 becomes 5, 5, 7. *)
C3_ForwardFill ==
    [][(pc = "ffill" /\ pc' = "to_csv") =>
          /\ Len(base'.rows) = Len(base.rows)
          /\ \A c \in FilledColumns(base) :
                IsForwardFilled([i \in 1..Len(base.rows) |-> base.rows[i][c]],
                                [i \in 1..Len(base.rows) |-> base'.rows[i][c]])]_vars

\* prices 5 on the first day and 7 on the third: the second day is filled with
\* 5; weather seen on the second day only: the first day stays missing
C3_Witness ==
    /\ pc = "to_csv"
    /\ csv.gas_prices.rows = <<PriceRow(0, 5), PriceRow(2, 7)>>
    /\ Len(csv.weather[1].rows) = 1
    /\ "temp_site1" \in Range(base.columns)
    /\ Len(base.rows) = 3
    /\ base.rows[2]["SAP_p_per_kWh"] = <<5, 1>>
    /\ base.rows[3]["SAP_p_per_kWh"] = <<7, 1>>
    /\ IsNull(base.rows[1]["temp_site1"])
    /\ base.rows[3]["temp_site1"] = <<1, 1>>

\* the value columns of the four daily tables, as far as they are loaded
ValueColumns(df) == IF df = None THEN {} ELSE Range(df.columns) \ {"timestamp"}

Collision ==
    \E a, b \in {weather, neso} : a # b /\ ValueColumns(a) \cap ValueColumns(b) # {}

(* C9: when two sources bring a column of the same name the merge ends with a
   SchemaError; no merged table holds the two columns, renamed or not. *)
C9_CollisionRejected ==
    (Collision /\ pc \notin {"load_gas_imports", "load_gas_prices", "build_index",
                              "merge_weather", "merge_neso"})
        => (pc = "failed" /\ err = "SchemaError")

\* the name a value column of the source has in the merged table
MergedName(c, source) ==
    IF c \in ValueColumns(weather) \cap ValueColumns(neso)
    THEN c \o (IF source = "weather" THEN "_x" ELSE "_y")
    ELSE c

Sources ==
    [weather |-> weather, neso |-> neso, gas_imports |-> gas_imports,
     gas_prices |-> gas_prices]

(* C10: after the four joins and before the fill, a row of the merged table
   whose timestamp no row of a source carries is missing in every column of
   that source, and the run has not failed. *)
C10_NoMatchIsNull ==
    /\ gas_prices # None => (pc # "failed" /\ err = "none")
    /\ pc = "ffill" =>
          \A s \in DOMAIN Sources : \A i \in 1..Len(base.rows) :
              RowsWith(Sources[s], base.rows[i]["timestamp"]) = {}
                  => \A c \in ValueColumns(Sources[s]) :
                        IsNull(base.rows[i][MergedName(c, s)])

\* every source has a row, and none has a row for the last day of the grid
C10_Witness ==
    /\ pc = "ffill"
    /\ \A s \in DOMAIN Sources : Len(Sources[s].rows) > 0
    /\ \A s \in DOMAIN Sources : RowsWith(Sources[s], <<idx[Len(idx)]>>) = {}
    /\ \A c \in Range(base.columns) \ {"timestamp"} : IsNull(base.rows[Len(base.rows)][c])
    /\ \E c \in Range(base.columns) : ~IsNull(base.rows[2][c]) /\ c # "timestamp"

-----------------------------------------------------------------------------
(* Failing loads *)

LoadStages == {"load_weather", "load_neso", "load_gas_imports", "load_gas_prices"}

\* the files of a source cannot be loaded: one of them is not there, or none
\* of them has one of the columns the loader reads
Unloadable(files, keys) ==
    \/ \E i \in 1..Len(files) : ~files[i].exists
    \/ ~(keys \subseteq UNION {Range(files[i].columns) : i \in 1..Len(files)})

UnloadableSources ==
    {s \in {"weather", "neso", "gas_imports", "gas_prices"} :
        IF s = "weather" THEN Unloadable(csv.weather, {"datetime"})
        ELSE IF s = "neso" THEN Unloadable(csv.neso, Range(NesoKeyColumns))
        ELSE IF s = "gas_imports" THEN Unloadable(csv.gas_imports, {"timestamp"})
        ELSE Unloadable(<<csv.gas_prices>>, {"date"})}

\* no value of a filled column is followed by a missing slot
NoGapBelowValue(df) ==
    \A c \in FilledColumns(df) : \A i \in 2..Len(df.rows) :
        IsNull(df.rows[i][c]) => IsNull(df.rows[i - 1][c])

(* C11: when one of the four sources cannot be loaded the run ends with an
   exception before the daily index is built or a join is made, and nothing
   is written; a written table is the merged table after all four sources
   were loaded, joined and forward-filled. *)
C11_LoadFailureWritesNothing ==
    /\ UnloadableSources # {} =>
          /\ pc \in LoadStages \cup {"failed"}
          /\ base = None
          /\ output = None
          /\ pc = "failed" => err # "none"
    /\ output # None =>
          /\ UnloadableSources = {}
          /\ pc = "done"
          /\ \A s \in DOMAIN Sources : Sources[s] # None
          /\ output = base
          /\ Len(output.columns) = 1 + Len(weather.columns) - 1 + Len(neso.columns) - 1
                                     + Len(gas_imports.columns) - 1 + Len(gas_prices.columns) - 1
          /\ NoGapBelowValue(output)

\* weather and demand were loaded, the gas imports file is not there: the run
\* has ended with the loader's exception and has written nothing
C11_Witness ==
    /\ pc = "failed"
    /\ err = "FileNotFoundError"
    /\ weather # None /\ neso # None /\ gas_imports = None
    /\ ~csv.gas_imports[1].exists
    /\ output = None

-----------------------------------------------------------------------------
(* Settlement dates that do not parse *)

\* the places of the demand rows whose settlement date is no date
Unparsed == {p \in NesoPlaces : Len(RowAt(csv.neso, p)["SETTLEMENT_DATE"]) # 1}

Parsed == NesoPlaces \ Unparsed

\* the files without the rows whose settlement date is no date
WithoutUnparsed(files) ==
    LET parses(row) == Len(row["SETTLEMENT_DATE"]) = 1
    IN  [i \in 1..Len(files) |-> [files[i] EXCEPT !.rows = SelectSeq(@, parses)]]

\* the rows whose date is no date are in no day of the daily table, and the
\* other rows are aggregated as if those rows were not there
UnparsedDropped ==
    NesoLoaded =>
        /\ \A i \in 1..Len(neso.rows) :
              /\ \E p \in Parsed : neso.rows[i]["timestamp"] = <<SlotOf(p) * 24 * 60>>
              /\ \A c \in SumColumns :
                    LET P == {p \in Parsed : <<SlotOf(p) * 24 * 60>> = neso.rows[i]["timestamp"]}
                    IN  neso.rows[i][c] = <<SumWithDefault(P, c), 1>>
        /\ \A p \in Parsed : RowsWith(neso, <<SlotOf(p) * 24 * 60>>) # {}

(* C12: a demand row whose settlement date does not parse is in no day of
   the daily table, the other rows are aggregated all the same, and the
   caller is told how many rows were dropped: what load_neso_daily gives for
   files with such rows differs from what it gives for the same files without
   them. *)
C12_UnparsedDroppedAndCounted ==
    /\ UnparsedDropped
    /\ (NesoLoaded /\ Unparsed # {}) =>
          load_neso_daily(WithoutUnparsed(csv.neso)) # load_neso_daily(csv.neso)

\* one row whose date parses and one whose date does not, on a loaded table
UnparsedRowLoaded ==
    /\ NesoLoaded
    /\ Unparsed # {} /\ Parsed # {}
    /\ Len(neso.rows) = 1

-----------------------------------------------------------------------------
(* Sources without a time column *)

\* the files of the source are all there and none has the columns its
\* loader takes the time from
NoTimeColumn(files, keys) ==
    /\ \A i \in 1..Len(files) : files[i].exists
    /\ keys \cap UNION {Range(files[i].columns) : i \in 1..Len(files)} = {}

\* the source whose load ended the run: the first one that is not loaded
FailedSource ==
    IF weather = None THEN "weather"
    ELSE IF neso = None THEN "neso"
    ELSE IF gas_imports = None THEN "gas_imports"
    ELSE "gas_prices"

FailedForNoTimeColumn ==
    /\ pc = "failed"
    /\ gas_prices = None
    /\ IF FailedSource = "weather" THEN NoTimeColumn(csv.weather, {"datetime"})
       ELSE IF FailedSource = "neso" THEN NoTimeColumn(csv.neso, Range(NesoKeyColumns))
       ELSE IF FailedSource = "gas_imports" THEN NoTimeColumn(csv.gas_imports, {"timestamp"})
       ELSE NoTimeColumn(<<csv.gas_prices>>, {"date"})

(* C13: a run that ends because a source table has none of the columns its
   loader takes the time from ends with a MissingTimestampError, whichever
   of the four sources it is. *)
C13_MissingTimestampTyped ==
    FailedForNoTimeColumn => err = "MissingTimestampError"

-----------------------------------------------------------------------------
(* The half-hourly gas prices *)

\* the rows of the daily prices that hold a price: the anchors
Anchors ==
    IF preprocessor.df = None THEN {}
    ELSE {i \in 1..Len(preprocessor.df.rows) :
             ~IsNull(preprocessor.df.rows[i]["SAP_p_per_kWh"])}

AnchorTime(i) == preprocessor.df.rows[i]["date"][1]

FirstAnchor == Min({AnchorTime(i) : i \in Anchors})

LastAnchor == Max({AnchorTime(i) : i \in Anchors})

\* interpolate_half_hourly has returned a table for daily prices with an anchor
Interpolated ==
    /\ preprocessor.call \in Methods
    /\ preprocessor.error = "none"
    /\ Anchors # {}

\* the returned rows are the half hours from the first anchor to the last,
\* each once, in order, and each holds a price
WithinAnchors(rows) ==
    /\ Len(rows) = (LastAnchor - FirstAnchor) \div 30 + 1
    /\ \A k \in 1..Len(rows) :
          /\ rows[k]["date"] = <<FirstAnchor + (k - 1) * 30>>
          /\ ~IsNull(rows[k]["SAP_p_per_kWh"])
          /\ ~IsNull(rows[k]["SAP_GBP_per_MWh"])

\* when every daily row holds a price the returned table lies within the
\* anchors and has no empty slot
FullDaysWithinAnchors ==
    (Interpolated /\ Anchors = 1..Len(preprocessor.df.rows))
        => WithinAnchors(preprocessor.returned.rows)

(* C14: whatever the method, the table interpolate_half_hourly returns has
   no row before the first daily anchor and none after the last, and every
   half hour from the first anchor to the last holds a price. *)
C14_NoExtrapolation ==
    Interpolated => WithinAnchors(preprocessor.returned.rows)

\* a price on the first day, none on the second: linear interpolation has
\* carried the price to the end of the second day
TrailingDayFilled ==
    /\ Interpolated
    /\ preprocessor.call = "linear"
    /\ Cardinality(Anchors) = 1 /\ Len(preprocessor.df.rows) = 2
    /\ LastAnchor = 0
    /\ preprocessor.returned.rows[49]["SAP_p_per_kWh"] = <<5, 1>>

(* C15: interpolate_half_hourly("cubic") on daily prices with fewer than
   four anchors ends with an InsufficientAnchorsError and returns nothing. *)
C15_CubicNeedsFourAnchors ==
    (preprocessor.call = "cubic" /\ preprocessor.df # None /\ Cardinality(Anchors) < 4)
        => (preprocessor.error = "InsufficientAnchorsError" /\ preprocessor.returned = None)

\* cubic on three anchors has ended with an exception and returned nothing
CubicOnThreeAnchorsRaises ==
    (preprocessor.call = "cubic" /\ preprocessor.df # None /\ Cardinality(Anchors) = 3)
        => (preprocessor.error = "ValueError" /\ preprocessor.returned = None)

-----------------------------------------------------------------------------
(* The order of the stages and what the fill may touch *)

StageOrder ==
    <<"load_weather", "load_neso", "load_gas_imports", "load_gas_prices", "build_index",
      "merge_weather", "merge_neso", "merge_gas_imports", "merge_gas_prices",
      "ffill", "to_csv", "done">>

Rank(stage) == CHOOSE k \in 1..Len(StageOrder) : StageOrder[k] = stage

\* the columns the merged table has once the four daily tables are joined
JoinedWidth ==
    1 + (Len(weather.columns) - 1) + (Len(neso.columns) - 1)
      + (Len(gas_imports.columns) - 1) + (Len(gas_prices.columns) - 1)

(* C17: every step of a run of save() goes from one stage to the next one of
   load weather, load demand, load gas imports, load gas prices, build the
   index, join weather, join demand, join gas imports, join gas prices,
   forward-fill, write, or ends the run with an exception; a stage changes
   only what is its own, the fill starts on the table of all four joins and
   adds no column, and nothing changes the table after the fill. *)
C17_StagesInOrder ==
    [][/\ pc # "failed"
       /\ pc' = "failed" \/ Rank(pc') = Rank(pc) + 1
       /\ weather' # weather => pc = "load_weather"
       /\ neso' # neso => pc = "load_neso"
       /\ gas_imports' # gas_imports => pc = "load_gas_imports"
       /\ gas_prices' # gas_prices => pc = "load_gas_prices"
       /\ base' # base => pc \in {"build_index", "merge_weather", "ffill"} \cup Joining
       /\ output' # output => pc = "to_csv"
       /\ pc = "ffill" => (Len(base.columns) = JoinedWidth /\ base'.columns = base.columns)
       /\ pc = "to_csv" => output' = base]_vars

\* a run that went through every stage, each source with a row
C17_Witness ==
    /\ pc = "done"
    /\ output # None
    /\ \A s \in DOMAIN Sources : Len(Sources[s].rows) > 0
    /\ Len(output.columns) = JoinedWidth

(* C18: the forward fill changes no cell but a missing cell of a numeric
   column: the timestamp column, the columns that are not numeric, the cells
   that held a value, the columns, the number of rows and their order are as
   before. *)
C18_FillTouchesOnlyNumericNulls ==
    [][(pc = "ffill" /\ pc' = "to_csv") =>
          /\ base'.columns = base.columns
          /\ base'.dtypes = base.dtypes
          /\ Len(base'.rows) = Len(base.rows)
          /\ \A i \in 1..Len(base.rows) :
                /\ base'.rows[i]["timestamp"] = base.rows[i]["timestamp"]
                /\ \A c \in Range(base.columns) :
                      base'.rows[i][c] # base.rows[i][c]
                          => (base.dtypes[c] = "float64" /\ IsNull(base.rows[i][c]))]_vars

\* the filled table: a text column that is missing below its value, and a
\* numeric column whose missing cell below a value was filled
C18_Witness ==
    /\ pc = "to_csv"
    /\ "unit" \in Range(base.columns)
    /\ base.rows[1]["unit"] = Text("MWh")
    /\ IsNull(base.rows[2]["unit"])
    /\ base.rows[1]["gas_imports_MWh_daily"] = <<1, 1>>
    /\ base.rows[2]["gas_imports_MWh_daily"] = <<1, 1>>
    /\ gas_imports.rows[1]["timestamp"] = <<0>>
    /\ Len(gas_imports.rows) = 1

-----------------------------------------------------------------------------
(* The chunks of fetch *)

\* the chunks the loop of fetch goes through
Chunks ==
    [k \in 1..(Len(fetcher.dates) - 1) |->
        [start |-> fetcher.dates[k], end |-> fetcher.dates[k + 1]]]

\* fetch has ended where it builds its list of dates
RaisedAtDates ==
    fetcher.pc = "raised" /\ fetcher.error = "IndexError" /\ fetcher.frames = <<>>

(* C19: whenever start_date is before end_date the list of dates is built
   without an exception, the first chunk starts at start_date, the last ends
   at end_date, every chunk ends after it starts, and every chunk but the
   first starts where the one before it ends. *)
C19_ChunksCoverTheRange ==
    fetcher.start_date < fetcher.end_date =>
        /\ ~RaisedAtDates
        /\ fetcher.pc = "query" =>
              /\ Len(Chunks) >= 1
              /\ Chunks[1].start = fetcher.start_date
              /\ Chunks[Len(Chunks)].end = fetcher.end_date
              /\ \A k \in 1..Len(Chunks) : Chunks[k].start < Chunks[k].end
              /\ \A k \in 2..Len(Chunks) : Chunks[k].start = Chunks[k - 1].end

\* when start_date is the first day of a month the chunks do cover the range
ChunksCoverFromMonthStart ==
    (fetcher.start_date < fetcher.end_date /\ fetcher.start_date \in MonthStarts) =>
        /\ ~RaisedAtDates
        /\ fetcher.pc = "query" =>
              /\ Len(Chunks) >= 1
              /\ Chunks[1].start = fetcher.start_date
              /\ Chunks[Len(Chunks)].end = fetcher.end_date
              /\ \A k \in 1..Len(Chunks) : Chunks[k].start < Chunks[k].end
              /\ \A k \in 2..Len(Chunks) : Chunks[k].start = Chunks[k - 1].end

\* the queries made so far are the first chunks, in order, whatever they gave
QueriedInOrder ==
    /\ Len(fetcher.queried) <= Len(Chunks)
    /\ \A k \in 1..Len(fetcher.queried) :
          /\ fetcher.queried[k].start = Chunks[k].start
          /\ fetcher.queried[k].end = Chunks[k].end

\* the chunks whose query gave data
Succeeded == {k \in 1..Len(fetcher.queried) : fetcher.queried[k].outcome = "data"}

\* fetch has ended after its loop went through every chunk
EndedAfterLoop ==
    /\ fetcher.pc \in {"returned", "raised"}
    /\ fetcher.dates # <<>>
    /\ Len(fetcher.queried) = Len(Chunks)

\* the returned table has a row for the start of a chunk exactly when the
\* chunk gave data with a number, and nothing else
BuiltFromSucceeded ==
    LET df == fetcher.returned
    IN  /\ df.columns = <<"timestamp", "UK_imports_MWh_hour">>
        /\ \A k \in Succeeded :
              (\E f \in 1..Len(fetcher.frames) :
                  /\ fetcher.frames[f][1][fetcher.ts_name] = <<MidnightOf(Chunks[k].start)>>
                  /\ ~IsNull(fetcher.frames[f][1]["value"]))
                  <=> RowsWith(df, <<MidnightOf(Chunks[k].start)>>) # {}
        /\ \A i \in 1..Len(df.rows) :
              /\ \E k \in Succeeded : df.rows[i]["timestamp"] = <<MidnightOf(Chunks[k].start)>>
              /\ df.rows[i]["UK_imports_MWh_hour"] = <<2, 1>>
        /\ \A i \in 1..(Len(df.rows) - 1) :
              df.rows[i]["timestamp"][1] < df.rows[i + 1]["timestamp"][1]

\* a chunk that raises or gives no data is skipped and the next one is queried
SkippedAndContinued ==
    /\ fetcher.pc \in {"query", "returned", "raised"} /\ fetcher.dates # <<>> =>
          /\ QueriedInOrder
          /\ Len(fetcher.frames) = Cardinality(Succeeded)
          /\ fetcher.pc = "query" => Len(fetcher.queried) = fetcher.i - 1
    /\ fetcher.pc \in {"returned", "raised"} /\ fetcher.dates # <<>> => EndedAfterLoop

\* the stronger statement: a RuntimeError exactly when no chunk gave data,
\* and a table whenever one did
C20_RuntimeErrorOnlyWithoutData ==
    /\ SkippedAndContinued
    /\ EndedAfterLoop =>
          /\ (fetcher.pc = "raised" /\ fetcher.error = "RuntimeError") <=> Succeeded = {}
          /\ Succeeded # {} => (fetcher.pc = "returned" /\ BuiltFromSucceeded)

\* a chunk that gave data gave a row whose value is a number
SomeValue ==
    \E f \in 1..Len(fetcher.frames) : ~IsNull(fetcher.frames[f][1]["value"])

(* C20: a chunk whose query raises or gives no data is skipped and the chunks
   after it are still queried in order; after the last chunk fetch ends with
   a RuntimeError when no chunk gave data and also when the chunks gave data
   that has none of the timestamp columns fetch knows, and a RuntimeError of
   fetch has no other case than these two; it ends with an IndexError when no
   row that came back holds a number; in every other case it returns a table, which has the
   two columns timestamp and UK_imports_MWh_hour and rows from the chunks that
   gave data only, so nothing in it tells which chunks are missing. *)
C20_SkipsFailedChunks ==
    /\ SkippedAndContinued
    /\ (fetcher.pc = "raised" /\ fetcher.error = "RuntimeError")
          => (Succeeded = {} \/ fetcher.ts_name \notin Range(ts_candidates))
    /\ EndedAfterLoop =>
          LET known == fetcher.ts_name \in Range(ts_candidates)
          IN  /\ Succeeded = {} => (fetcher.pc = "raised" /\ fetcher.error = "RuntimeError")
              /\ (Succeeded # {} /\ ~known)
                    => (fetcher.pc = "raised" /\ fetcher.error = "RuntimeError")
              /\ (fetcher.pc = "raised" /\ fetcher.error = "RuntimeError")
                    => (Succeeded = {} \/ ~known)
              /\ (Succeeded # {} /\ known /\ ~SomeValue)
                    => (fetcher.pc = "raised" /\ fetcher.error = "IndexError")
              /\ (Succeeded # {} /\ known /\ SomeValue)
                    => (fetcher.pc = "returned" /\ BuiltFromSucceeded)

\* three chunks, the second one raised: the table has the first and the third
C20_Witness ==
    /\ fetcher.pc = "returned"
    /\ Len(fetcher.queried) = 3
    /\ fetcher.queried[2].outcome = "raises"
    /\ Succeeded = {1, 3}
    /\ Len(fetcher.returned.rows) = 2

\* data came back, and fetch ended with a RuntimeError for its columns
C20_DataButRuntimeError ==
    /\ EndedAfterLoop
    /\ Succeeded # {}
    /\ fetcher.pc = "raised" /\ fetcher.error = "RuntimeError"

-----------------------------------------------------------------------------
(* Operations that need the result of an earlier stage *)

\* the texts of the errors raised for a stage that has not run
NotLoaded == "Load data first using .load()"
NotFetched == "No weather data has been fetched yet!"

\* the last call was interpolate_half_hourly and it failed for want of load()
RaisedNotLoaded ==
    /\ preprocessor.call \in Methods
    /\ preprocessor.error = "ValueError"
    /\ preprocessor.message = NotLoaded

\* the last call was save_to_csv and it failed for want of
\* build_weather_dataset()
RaisedNotFetched ==
    /\ meteo.call = "save_to_csv"
    /\ meteo.error = "ValueError"
    /\ meteo.message = NotFetched

\* this step is a call of interpolate_half_hourly on a preprocessor that
\* holds no loaded table
InterpolateBeforeLoad ==
    /\ preprocessor.df = None
    /\ preprocessor' # preprocessor
    /\ preprocessor'.call \in Methods

\* this step is a call of save_to_csv on a fetcher that holds no weather
\* table
SaveBeforeBuild ==
    /\ meteo.weather_df = None
    /\ meteo' # meteo
    /\ meteo'.call = "save_to_csv"

\* the fields of the two objects, apart from the record of the last call
PreprocessorFields == <<preprocessor.csv_path, preprocessor.convert_to_gbp_mwh, preprocessor.df>>
MeteoFields == <<meteo.start_date, meteo.end_date, meteo.weather_df>>

\* load() has just returned
Loaded == preprocessor.call = "load" /\ preprocessor.error = "none"

\* build_weather_dataset() has just returned
Built == meteo.call = "build_weather_dataset" /\ meteo.error = "none"

\* a call made too early fails with the error of the missing stage and
\* changes neither the object nor the disk
TooEarlyFails ==
    /\ InterpolateBeforeLoad =>
          /\ RaisedNotLoaded'
          /\ preprocessor'.returned = None
          /\ PreprocessorFields' = PreprocessorFields
    /\ SaveBeforeBuild =>
          /\ RaisedNotFetched'
          /\ MeteoFields' = MeteoFields
          /\ disk' = disk

(* C21: interpolate_half_hourly called before load() has produced a table,
   and save_to_csv called before build_weather_dataset() has produced one,
   fail with ValueError and leave the fields of the object as they were,
   save_to_csv creating no directory and no file; once load() (or
   build_weather_dataset()) has returned, no later call of the operation on
   that object fails with the error raised for the missing stage. *)
C21_StageResultRequired ==
    /\ [][TooEarlyFails]_vars
    /\ [](Loaded => [](~RaisedNotLoaded))
    /\ [](Built => [](~RaisedNotFetched))

\* both operations have been called too early, the last of them save_to_csv
\* where no directory was: both failed, and there is still no directory
C21_Witness ==
    /\ RaisedNotLoaded
    /\ preprocessor.df = None
    /\ RaisedNotFetched
    /\ meteo.weather_df = None
    /\ disk = NoDisk

====
